---- MODULE Spec2Model ----
(***************************************************************************)
(* Model of Serialisation.hpp: the Serialiser, Deserialiser and Sizer      *)
(* contexts, the container overload set and the Serialisation dispatcher.  *)
(*                                                                         *)
(* A value is a record [k, p, v]: k names its C++ type constructor, p is   *)
(* the type parameter (the value-initialised element for containers, the   *)
(* set of declared On* functions for a user struct) and v the contents.    *)
(* Memory is a sequence of bytes (0..255); a cursor is an offset into it.  *)
(***************************************************************************)
EXTENDS Integers, Sequences, FiniteSets, TLC

\* ------------------------------------------------------------------ bounds
\* Largest number of elements of a variable-length container.
MaxLen == 3
\* Largest capacity N of a fixed-size container (T[N], std::array<T,N>).
MaxCap == 3

\* ------------------------------------------------- platform object sizes
\* sizeof( Size ): the native size_t / size_type / difference_type header.
SizeofSize == 8
\* sizeof( int )
SizeofInt == 4
\* sizeof( char ), sizeof( *a_Container.data() ) for std::string
SizeofChar == 1

\* Capacity of the caller-allocated byte buffer.
BufSize == SizeofSize + (MaxLen + 1) * 8 + 8

\* ------------------------------------------------------------ sequences
RECURSIVE Rep(_, _)
\* n copies of x
Rep(x, n) == IF n <= 0 THEN <<>> ELSE <<x>> \o Rep(x, n - 1)

Min(a, b) == IF a < b THEN a ELSE b

RECURSIVE SeqsUpTo(_, _)
\* every sequence over S of length at most n
SeqsUpTo(S, n) ==
  IF n = 0 THEN {<<>>}
  ELSE LET R == SeqsUpTo(S, n - 1)
       IN R \cup {Append(r, x) : r \in {q \in R : Len(q) = n - 1}, x \in S}

\* sequence q with x inserted so that it becomes element number pos (1-based)
InsertAt(q, pos, x) == SubSeq(q, 1, pos - 1) \o <<x>> \o SubSeq(q, pos, Len(q))

\* ---------------------------------------------------- object representation
RECURSIVE ToBytes(_, _)
\* The w low-order bytes of n, least significant first (two's complement).
ToBytes(n, w) == IF w = 0 THEN <<>> ELSE <<n % 256>> \o ToBytes(n \div 256, w - 1)

RECURSIVE Unsigned(_)
\* Unsigned value of a little-endian byte sequence.
Unsigned(b) == IF Len(b) = 0 THEN 0 ELSE b[1] + 256 * Unsigned(Tail(b))

\* Signed value of a little-endian two's complement byte sequence.
Signed(b) ==
  LET n == Len(b)
      hi == IF b[n] >= 128 THEN b[n] - 256 ELSE b[n]
  IN Unsigned(SubSeq(b, 1, n - 1) \o <<0>>) + hi * (256 ^ (n - 1))

\* Largest size the model represents; any stored count that does not fit.
HugeSize == 2 ^ 30

\* The value of a size_t object whose bytes are b.
SizeFromBytes(b) ==
  IF \E j \in 4..Len(b) : b[j] # 0 THEN HugeSize ELSE Unsigned(SubSeq(b, 1, 3))

\* --------------------------------------------------------------- values
CharV(c) == [k |-> "char", p |-> 0, v |-> c]
IntV(n) == [k |-> "int", p |-> 0, v |-> n]
Str(chars) == [k |-> "string", p |-> 0, v |-> chars]
Cont(kind, proto, elems) == [k |-> kind, p |-> proto, v |-> elems]
Pair(a, b) == [k |-> "pair", p |-> 0, v |-> <<a, b>>]
Tuple(elems) == [k |-> "tuple", p |-> 0, v |-> elems]
\* A user struct: hooks is the set of On* member functions it declares with
\* the exact signature; members are its data members in declaration order and
\* pad the current contents of its padding bytes.
Obj(hooks, members, pad) == [k |-> "obj", p |-> hooks, v |-> <<members, pad>>]

LeafKinds == {"char", "int"}
VariadicKinds == {"pair", "tuple"}
FixedKinds == {"carray", "array"}
SequenceKinds == {"vector", "list", "forward_list", "deque"}
AdapterKinds == {"queue", "stack"}
MapKinds == {"map", "multimap", "unordered_map", "unordered_multimap"}
SetKinds == {"set", "multiset", "unordered_set", "unordered_multiset"}
UniqueKinds == {"map", "unordered_map", "set", "unordered_set"}
OrderedKinds == {"map", "multimap", "set", "multiset"}
\* containers written as a count followed by that many elements
CountedKinds == SequenceKinds \cup AdapterKinds \cup MapKinds \cup SetKinds
ContainerKinds ==
  VariadicKinds \cup {"string"} \cup FixedKinds \cup CountedKinds \cup {"priority_queue"}

\* sizeof( T ) for a scalar
SizeofLeaf(x) == IF x.k = "char" THEN SizeofChar ELSE SizeofInt

\* a scalar's bytes in memory
LeafRepr(x) == ToBytes(x.v, SizeofLeaf(x))

\* the scalar of x's type whose bytes are b
LeafFromRepr(x, b) == [x EXCEPT !.v = IF x.k = "char" THEN Unsigned(b) ELSE Signed(b)]

\* smallest multiple of a that is at least n
AlignUp(n, a) == ((n + a - 1) \div a) * a

RECURSIVE MemberOffset(_, _)
\* offset of data member number i in a struct whose members are m
MemberOffset(m, i) ==
  IF i = 1 THEN 0
  ELSE AlignUp(MemberOffset(m, i - 1) + SizeofLeaf(m[i - 1]), SizeofLeaf(m[i]))

RECURSIVE MaxAlign(_)
MaxAlign(m) ==
  IF Len(m) = 0 THEN 1
  ELSE LET r == MaxAlign(Tail(m)) IN IF SizeofLeaf(m[1]) > r THEN SizeofLeaf(m[1]) ELSE r

\* sizeof( T ) for a struct with scalar members m
SizeofStruct(m) ==
  IF Len(m) = 0 THEN 1
  ELSE AlignUp(MemberOffset(m, Len(m)) + SizeofLeaf(m[Len(m)]), MaxAlign(m))

\* the member that owns byte offset j of the struct, 0 when j is padding
OwnerOf(m, j) ==
  IF \E i \in 1..Len(m) : MemberOffset(m, i) <= j /\ j < MemberOffset(m, i) + SizeofLeaf(m[i])
  THEN CHOOSE i \in 1..Len(m) : MemberOffset(m, i) <= j /\ j < MemberOffset(m, i) + SizeofLeaf(m[i])
  ELSE 0

\* the offsets of the padding bytes of the struct, in increasing order
PadCount(m, j) == Cardinality({q \in 0..j : OwnerOf(m, q) = 0})

\* sizeof( a_Object )
Sizeof(x) == IF x.k = "obj" THEN SizeofStruct(x.v[1]) ELSE SizeofLeaf(x)

\* The bytes of the object x in memory: reinterpret_cast< const byte_t* >( &x ).
Repr(x) ==
  IF x.k = "obj"
  THEN LET m == x.v[1]
       IN [j \in 1..SizeofStruct(m) |->
             LET i == OwnerOf(m, j - 1)
             IN IF i = 0 THEN x.v[2][PadCount(m, j - 1)]
                ELSE LeafRepr(m[i])[j - MemberOffset(m, i)]]
  ELSE LeafRepr(x)

\* The object of x's type whose memory holds the bytes b.
FromRepr(x, b) ==
  IF x.k = "obj"
  THEN LET m == x.v[1]
           n == SizeofStruct(m)
           pads == {q \in 0..(n - 1) : OwnerOf(m, q) = 0}
       IN [x EXCEPT !.v = << [i \in 1..Len(m) |->
                                LeafFromRepr(m[i], SubSeq(b, MemberOffset(m, i) + 1,
                                                          MemberOffset(m, i) + SizeofLeaf(m[i])))],
                             [r \in 1..Cardinality(pads) |->
                                b[1 + CHOOSE q \in pads : PadCount(m, q) = r]] >>]
  ELSE LeafFromRepr(x, b)

\* ------------------------------------------------- capability detection
\* HasOn##Name< T >::Value: T declares On<Name> with the exact signature.
HasOn(name, x) == x.k = "obj" /\ name \in x.p

\* ------------------------------------------------------- shared plumbing
\* One entry of a context's call record: the function ev ran for the element
\* number n (0: the value handed to the context) at nesting depth d.
Event(c, ev) == [c EXCEPT !.log = Append(@, [ev |-> ev, n |-> c.idx, d |-> c.depth])]

\* the context as seen by the processing of element number i
Enter(c, i) == [c EXCEPT !.depth = @ + 1, !.idx = i]

\* the context once the element's processing has returned to caller c0
Leave(c, c0) == [c EXCEPT !.depth = c0.depth, !.idx = c0.idx]

\* the caller-supplied element functor throws on its invocation number i
FunctorThrows(c, i) == c.depth = 0 /\ c.throwAt = i

\* ------------------------------------------------------------ Serialiser
\* Serialiser( byte_t* a_Data ) over a zero-filled buffer
NewSerialiser ==
  [m_Data |-> [j \in 1..BufSize |-> 0], m_Head |-> 0, copies |-> <<>>, log |-> <<>>,
   thrown |-> FALSE, ub |-> FALSE, depth |-> 0, idx |-> 0, throwAt |-> 0, obj |-> 0]

\* SerialiseAsMemory without m_Head += a_Size
SerialiseAsMemoryNoAdvance(s, bytes) ==
  LET n == Len(bytes) IN
  IF s.m_Head + n > BufSize THEN [s EXCEPT !.ub = TRUE]
  ELSE [s EXCEPT !.m_Data = [j \in 1..BufSize |->
                               IF s.m_Head < j /\ j <= s.m_Head + n THEN bytes[j - s.m_Head]
                               ELSE s.m_Data[j]],
                 !.copies = Append(@, [at |-> s.m_Head, n |-> n])]

\* SerialiseAsMemory with memcpy( m_Data, a_Data, a_Size ): every copy lands
\* at the start of the buffer
SerialiseAsMemoryAtStart(s, bytes) ==
  LET n == Len(bytes) IN
  IF s.m_Head + n > BufSize THEN [s EXCEPT !.ub = TRUE]
  ELSE [s EXCEPT !.m_Data = [j \in 1..BufSize |->
                               IF j <= n THEN bytes[j] ELSE s.m_Data[j]],
                 !.m_Head = @ + n,
                 !.copies = Append(@, [at |-> s.m_Head, n |-> n])]

\* memcpy( m_Head, a_Data, a_Size ); m_Head += a_Size; bytes is a_Data[0..a_Size)
SerialiseAsMemory(s, bytes) ==
  LET n == Len(bytes) IN
  IF s.m_Head + n > BufSize THEN [s EXCEPT !.ub = TRUE]
  ELSE [s EXCEPT !.m_Data = [j \in 1..BufSize |->
                               IF s.m_Head < j /\ j <= s.m_Head + n THEN bytes[j - s.m_Head]
                               ELSE s.m_Data[j]],
                 !.m_Head = @ + n,
                 !.copies = Append(@, [at |-> s.m_Head, n |-> n])]

\* GetBytesWritten(): m_Head - m_Data
GetBytesWritten(s) == s.m_Head

\* std::priority_queue< T... >( std::move( a_Queue ) ) with Heap bound to c:
\* the helper owns the elements, a_Queue is left moved-from (empty).
PriorityQueueHelper(q) == [Heap |-> q.v, moved |-> [q EXCEPT !.v = <<>>]]

RECURSIVE SerialiseOp(_, _)
RECURSIVE SerialiseEach(_, _, _)
RECURSIVE SerialiseVariadic(_, _, _)

RECURSIVE SerialiseEachBackwards(_, _, _)
\* SerialiseEach walking the container from its last element to its first
SerialiseEachBackwards(s, elems, i) ==
  IF i > Len(elems) \/ s.thrown THEN s
  ELSE IF FunctorThrows(s, i) THEN [s EXCEPT !.thrown = TRUE]
  ELSE LET j == Len(elems) + 1 - i
       IN SerialiseEachBackwards(Leave(SerialiseOp(Enter(s, j), elems[j]), s), elems, i + 1)

\* for ( const auto& Object : a_Container ) a_Functor( *this, Object );
\* the default functor is a_Serialiser << a_Object
SerialiseEach(s, elems, i) ==
  IF i > Len(elems) \/ s.thrown THEN s
  ELSE IF FunctorThrows(s, i) THEN [s EXCEPT !.thrown = TRUE]
  ELSE SerialiseEach(Leave(SerialiseOp(Enter(s, i), elems[i]), s), elems, i + 1)

\* ( ( *this << std::get< Idx >( a_Object ) ), ... )
SerialiseVariadic(s, slots, i) ==
  IF i > Len(slots) \/ s.thrown THEN s
  ELSE SerialiseVariadic(Leave(SerialiseOp(Enter(s, i), slots[i]), s), slots, i + 1)

\* SerialiseAsMemory( &Size, sizeof( Size ) ): write out size
WriteSize(s, Size) == SerialiseAsMemory(Event(s, "Size"), ToBytes(Size, SizeofSize))

\* auto Size = a_Container.length(); the size, then the characters
SerialiseAsContainerString(s, x) ==
  LET s1 == WriteSize(s, Len(x.v))
  IN SerialiseAsMemory(s1, [j \in 1..Len(x.v) |-> ToBytes(x.v[j], SizeofChar)[1]])

\* SerialiseAsContainer writing the size behind the elements
SerialiseAsContainerCountLast(s, elems) ==
  LET s1 == SerialiseEach(s, elems, 1)
  IN IF s1.thrown THEN s1 ELSE WriteSize(s1, Len(elems))

\* auto Size = a_Container.size(); the size, then each element
SerialiseAsContainer(s, elems) == SerialiseEach(WriteSize(s, Len(elems)), elems, 1)

\* size_t Size = N; the size, then each of the N elements
SerialiseAsContainerFixed(s, x) == SerialiseEach(WriteSize(s, Len(x.v)), x.v, 1)

\* SerialiseAsContainerPriorityQueue without the move back from the helper
SerialiseAsContainerPriorityQueueNoRestore(s, q) ==
  LET Helper == PriorityQueueHelper(q)
  IN SerialiseAsContainer([s EXCEPT !.obj = Helper.moved], Helper.Heap)

\* move the queue into the helper, write the heap, move the helper back
SerialiseAsContainerPriorityQueue(s, q) ==
  LET Helper == PriorityQueueHelper(q)
      s0 == [s EXCEPT !.obj = Helper.moved]
      s1 == SerialiseAsContainer(s0, Helper.Heap)
  IN IF s1.thrown THEN s1 ELSE [s1 EXCEPT !.obj = [Helper.moved EXCEPT !.v = Helper.Heap]]

\* OnSerialise streaming the members last to first
OnSerialiseReversed(s, x) ==
  SerialiseVariadic(s, [j \in 1..Len(x.v[1]) |-> x.v[1][Len(x.v[1]) + 1 - j]], 1)

\* void OnSerialise( Serialiser& a_Serialiser ) const
\*   { a_Serialiser << Member1 << Member2 ...; }
OnSerialise(s, x) == SerialiseVariadic(s, x.v[1], 1)

\* Serialise with the else of the OnSerialise test dropped: the raw copy
\* follows the hook
SerialiseNoElse(s, x) ==
  LET s1 == IF HasOn("OnBeforeSerialise", x) THEN Event(s, "OnBeforeSerialise") ELSE s
      s2 == IF HasOn("OnSerialise", x) THEN OnSerialise(Event(s1, "OnSerialise"), x) ELSE s1
      s3 == SerialiseAsMemory(Event(s2, "AsMemory"), Repr(x))
  IN IF s3.thrown THEN s3
     ELSE IF HasOn("OnAfterSerialise", x) THEN Event(s3, "OnAfterSerialise") ELSE s3

\* Serialise calling the before and after functions only next to OnSerialise
SerialiseLifecycleWithCoreOnly(s, x) ==
  IF HasOn("OnSerialise", x)
  THEN LET s1 == IF HasOn("OnBeforeSerialise", x) THEN Event(s, "OnBeforeSerialise") ELSE s
           s2 == OnSerialise(Event(s1, "OnSerialise"), x)
       IN IF s2.thrown THEN s2
          ELSE IF HasOn("OnAfterSerialise", x) THEN Event(s2, "OnAfterSerialise") ELSE s2
  ELSE SerialiseAsMemory(Event(s, "AsMemory"), Repr(x))

\* Serialisation::Serialise< T >
Serialise(s, x) ==
  LET s1 == IF HasOn("OnBeforeSerialise", x) THEN Event(s, "OnBeforeSerialise") ELSE s
      s2 == IF HasOn("OnSerialise", x) THEN OnSerialise(Event(s1, "OnSerialise"), x)
            ELSE SerialiseAsMemory(Event(s1, "AsMemory"), Repr(x))
  IN IF s2.thrown THEN s2
     ELSE IF HasOn("OnAfterSerialise", x) THEN Event(s2, "OnAfterSerialise") ELSE s2

\* operator<<: overload resolution of SerialiseAsContainer( a_ObjectOrContainer )
SerialiseOp(s, x) ==
  IF s.thrown THEN s
  ELSE IF x.k \in VariadicKinds THEN SerialiseVariadic(Event(s, "AsContainer"), x.v, 1)
  ELSE IF x.k = "string" THEN SerialiseAsContainerString(Event(s, "AsContainer"), x)
  ELSE IF x.k \in FixedKinds THEN SerialiseAsContainerFixed(Event(s, "AsContainer"), x)
  ELSE IF x.k \in CountedKinds THEN SerialiseAsContainer(Event(s, "AsContainer"), x.v)
  ELSE IF x.k = "priority_queue"
       THEN SerialiseAsContainerPriorityQueue(Event(s, "AsContainer"), x)
  ELSE Serialise(s, x)

\* ----------------------------------------------------------------- Sizer
\* Sizer(): m_Size( 0u )
NewSizer ==
  [m_Size |-> 0, log |-> <<>>, thrown |-> FALSE, depth |-> 0, idx |-> 0, throwAt |-> 0,
   obj |-> 0]

\* m_Size += a_Size
AddSizeOfMemory(z, n) == [z EXCEPT !.m_Size = @ + n]

RECURSIVE SizeOfOp(_, _)
RECURSIVE SizeOfEach(_, _, _)
RECURSIVE SizeOfEachKeyValue(_, _, _)
RECURSIVE SizeOfVariadic(_, _, _)

\* for ( const auto& Object : a_Container ) a_Functor( *this, Object );
\* the default functor is a_Sizer + a_Object
SizeOfEach(z, elems, i) ==
  IF i > Len(elems) \/ z.thrown THEN z
  ELSE IF FunctorThrows(z, i) THEN [z EXCEPT !.thrown = TRUE]
  ELSE SizeOfEach(Leave(SizeOfOp(Enter(z, i), elems[i]), z), elems, i + 1)

\* a_KeyFunctor( *this, std::get< 0 >( Object ) );
\* a_ValueFunctor( *this, std::get< 1 >( Object ) );
SizeOfEachKeyValue(z, elems, i) ==
  IF i > Len(elems) \/ z.thrown THEN z
  ELSE IF FunctorThrows(z, i) THEN [z EXCEPT !.thrown = TRUE]
  ELSE LET z1 == SizeOfOp(Enter(z, i), elems[i].v[1])
           z2 == SizeOfOp(z1, elems[i].v[2])
       IN SizeOfEachKeyValue(Leave(z2, z), elems, i + 1)

RECURSIVE SizeOfVariadicWithCount(_, _, _)
\* SizeOfVariadic adding the size of a count ahead of the slots
SizeOfVariadicWithCount(z, slots, i) ==
  IF i > Len(slots) \/ z.thrown THEN z
  ELSE LET z0 == IF i = 1 THEN AddSizeOfMemory(z, SizeofSize) ELSE z
       IN SizeOfVariadicWithCount(Leave(SizeOfOp(Enter(z0, i), slots[i]), z0), slots, i + 1)

\* ( ( *this + std::get< Idx >( a_Object ) ), ... )
SizeOfVariadic(z, slots, i) ==
  IF i > Len(slots) \/ z.thrown THEN z
  ELSE SizeOfVariadic(Leave(SizeOfOp(Enter(z, i), slots[i]), z), slots, i + 1)

\* AddSizeOfContainerString that forgets the size of the length header
AddSizeOfContainerStringNoHeader(z, x) == AddSizeOfMemory(z, SizeofChar * Len(x.v))

\* sizeof( a_Container.length() ), then sizeof( *data() ) * length()
AddSizeOfContainerString(z, x) ==
  AddSizeOfMemory(AddSizeOfMemory(z, SizeofSize), SizeofChar * Len(x.v))

\* sizeof( a_Container.size() ), then each element
AddSizeOfContainer(z, elems) == SizeOfEach(AddSizeOfMemory(z, SizeofSize), elems, 1)

\* sizeof( N ), then each of the N elements
AddSizeOfContainerFixed(z, x) == SizeOfEach(AddSizeOfMemory(z, SizeofSize), x.v, 1)

\* sizeof( a_Container.size() ), then the key and the value of each entry
AddSizeOfContainerMap(z, elems) == SizeOfEachKeyValue(AddSizeOfMemory(z, SizeofSize), elems, 1)

\* move the queue into the helper, size the heap, move the helper back
AddSizeOfContainerPriorityQueue(z, q) ==
  LET Helper == PriorityQueueHelper(q)
      z0 == [z EXCEPT !.obj = Helper.moved]
      z1 == AddSizeOfContainer(z0, Helper.Heap)
  IN IF z1.thrown THEN z1 ELSE [z1 EXCEPT !.obj = [Helper.moved EXCEPT !.v = Helper.Heap]]

\* void OnSize( Sizer& a_Sizer ) const { a_Sizer + Member1 + Member2 ...; }
OnSize(z, x) == SizeOfVariadic(z, x.v[1], 1)

\* SizeOf deciding on HasOnSerialise in place of HasOnSize
SizeOfWhenSerialisable(z, x) ==
  IF HasOn("OnSerialise", x) THEN OnSize(Event(z, "OnSize"), x)
  ELSE AddSizeOfMemory(Event(z, "AsMemory"), Sizeof(x))

\* Serialisation::SizeOf< T >
SizeOf(z, x) ==
  IF HasOn("OnSize", x) THEN OnSize(Event(z, "OnSize"), x)
  ELSE AddSizeOfMemory(Event(z, "AsMemory"), Sizeof(x))

\* operator+: overload resolution of AddSizeOfContainer( a_ObjectOrContainer )
SizeOfOp(z, x) ==
  IF z.thrown THEN z
  ELSE IF x.k \in VariadicKinds THEN SizeOfVariadic(Event(z, "AsContainer"), x.v, 1)
  ELSE IF x.k = "string" THEN AddSizeOfContainerString(Event(z, "AsContainer"), x)
  ELSE IF x.k \in FixedKinds THEN AddSizeOfContainerFixed(Event(z, "AsContainer"), x)
  ELSE IF x.k \in MapKinds THEN AddSizeOfContainerMap(Event(z, "AsContainer"), x.v)
  ELSE IF x.k \in CountedKinds THEN AddSizeOfContainer(Event(z, "AsContainer"), x.v)
  ELSE IF x.k = "priority_queue"
       THEN AddSizeOfContainerPriorityQueue(Event(z, "AsContainer"), x)
  ELSE SizeOf(z, x)

\* ---------------------------------------------------------- Deserialiser
\* Deserialiser( byte_t* a_Data ) over the buffer mem
NewDeserialiser(mem) ==
  [m_Data |-> mem, m_Head |-> 0, copies |-> <<>>, log |-> <<>>,
   thrown |-> FALSE, ub |-> FALSE, corrupt |-> FALSE, depth |-> 0, idx |-> 0, throwAt |-> 0]

\* the traversal is unwinding an exception, has read past the end of the
\* buffer (ub) or has written outside the destination object (corrupt)
Halted(c) == c.thrown \/ c.ub \/ c.corrupt

\* DeserialiseAsMemory with m_Head = m_Data + a_Size in place of m_Head += a_Size
DeserialiseAsMemoryFromStart(c, n) ==
  IF c.m_Head + n > BufSize THEN [c |-> [c EXCEPT !.ub = TRUE], b |-> <<>>]
  ELSE [c |-> [c EXCEPT !.m_Head = n, !.copies = Append(@, [at |-> c.m_Head, n |-> n])],
        b |-> SubSeq(c.m_Data, c.m_Head + 1, c.m_Head + n)]

\* memcpy( o_Data, m_Head, a_Size ); m_Head += a_Size; b is what o_Data receives
DeserialiseAsMemory(c, n) ==
  IF c.m_Head + n > BufSize THEN [c |-> [c EXCEPT !.ub = TRUE], b |-> <<>>]
  ELSE [c |-> [c EXCEPT !.m_Head = @ + n, !.copies = Append(@, [at |-> c.m_Head, n |-> n])],
        b |-> SubSeq(c.m_Data, c.m_Head + 1, c.m_Head + n)]

\* GetBytesRead(): m_Head - m_Data
GetBytesRead(c) == c.m_Head

\* ReadSize with a 32-bit size_type
ReadSizeNarrow(c) ==
  LET r == DeserialiseAsMemory(Event(c, "Size"), SizeofInt)
  IN [c |-> r.c, n |-> IF r.c.ub THEN 0 ELSE SizeFromBytes(r.b)]

\* size_type Size; DeserialiseAsMemory( &Size, sizeof( Size ) );
ReadSize(c) ==
  LET r == DeserialiseAsMemory(Event(c, "Size"), SizeofSize)
  IN [c |-> r.c, n |-> IF r.c.ub THEN 0 ELSE SizeFromBytes(r.b)]

\* key under which an associative container files the element e
KeyOf(e) == IF e.k = "pair" THEN e.v[1].v ELSE e.v

\* Emplace as insert_or_assign: a colliding entry replaces the one held
EmplaceOverwrite(kind, elems, e) ==
  LET same == {j \in 1..Len(elems) : KeyOf(elems[j]) = KeyOf(e)}
  IN IF kind \in UniqueKinds /\ same # {}
     THEN [j \in 1..Len(elems) |-> IF j \in same THEN e ELSE elems[j]]
     ELSE IF kind \in OrderedKinds
          THEN InsertAt(elems,
                        1 + Cardinality({j \in 1..Len(elems) : KeyOf(elems[j]) <= KeyOf(e)}), e)
     ELSE IF same # {} THEN InsertAt(elems, 1 + CHOOSE j \in same : \A q \in same : q <= j, e)
     ELSE InsertAt(elems, 1, e)

\* o_Container.emplace( e ) for the associative container kind holding elems
Emplace(kind, elems, e) ==
  LET same == {j \in 1..Len(elems) : KeyOf(elems[j]) = KeyOf(e)}
  IN IF kind \in UniqueKinds /\ same # {} THEN elems
     ELSE IF kind \in OrderedKinds
          THEN InsertAt(elems,
                        1 + Cardinality({j \in 1..Len(elems) : KeyOf(elems[j]) <= KeyOf(e)}), e)
     ELSE IF same # {} THEN InsertAt(elems, 1 + CHOOSE j \in same : \A q \in same : q <= j, e)
     ELSE InsertAt(elems, 1, e)

RECURSIVE DeserialiseOp(_, _)
RECURSIVE DeserialiseEach(_, _, _, _)
RECURSIVE DeserialiseEachEmplaceBack(_, _, _, _, _)
RECURSIVE DeserialiseEachEmplaceAfter(_, _, _, _, _)
RECURSIVE DeserialiseEachKeyValue(_, _, _, _)
RECURSIVE DeserialiseEachValue(_, _, _, _)
RECURSIVE DeserialiseVariadic(_, _, _)
RECURSIVE DeserialiseEachEmplaceAfterNoAdvance(_, _, _, _, _)

\* for ( size_t i = 0; i < Size; ++i ) a_Functor( *this, o_Container[ i ] );
\* the default functor is a_Deserialiser >> a_Object; slots is the storage of
\* o_Container, and o_Container[ i ] beyond it is an out-of-bounds write
DeserialiseEach(c, slots, i, n) ==
  IF i > n \/ Halted(c) THEN [c |-> c, o |-> slots]
  ELSE IF FunctorThrows(c, i) THEN [c |-> [c EXCEPT !.thrown = TRUE], o |-> slots]
  ELSE IF i > Len(slots) THEN [c |-> [c EXCEPT !.corrupt = TRUE], o |-> slots]
  ELSE LET r == DeserialiseOp(Enter(c, i), slots[i])
       IN DeserialiseEach(Leave(r.c, c), [slots EXCEPT ![i] = r.o], i + 1, n)

\* a_Functor( *this, o_Container.emplace_back() );
DeserialiseEachEmplaceBack(c, elems, proto, i, n) ==
  IF i > n \/ Halted(c) THEN [c |-> c, o |-> elems]
  ELSE IF FunctorThrows(c, i)
       THEN [c |-> [c EXCEPT !.thrown = TRUE], o |-> Append(elems, proto)]
  ELSE LET r == DeserialiseOp(Enter(c, i), proto)
       IN DeserialiseEachEmplaceBack(Leave(r.c, c), Append(elems, r.o), proto, i + 1, n)

\* DeserialiseEachEmplaceAfter without ++Begin: every element goes in front
DeserialiseEachEmplaceAfterNoAdvance(c, elems, proto, i, n) ==
  IF i > n \/ Halted(c) THEN [c |-> c, o |-> elems]
  ELSE IF FunctorThrows(c, i)
       THEN [c |-> [c EXCEPT !.thrown = TRUE], o |-> InsertAt(elems, 1, proto)]
  ELSE LET r == DeserialiseOp(Enter(c, i), proto)
       IN DeserialiseEachEmplaceAfterNoAdvance(Leave(r.c, c), InsertAt(elems, 1, r.o),
                                               proto, i + 1, n)

\* a_Functor( *this, *o_Container.emplace_after( Begin ) ); ++Begin;
\* Begin starts at before_begin(), so the i-th new element becomes element i
DeserialiseEachEmplaceAfter(c, elems, proto, i, n) ==
  IF i > n \/ Halted(c) THEN [c |-> c, o |-> elems]
  ELSE IF FunctorThrows(c, i)
       THEN [c |-> [c EXCEPT !.thrown = TRUE], o |-> InsertAt(elems, i, proto)]
  ELSE LET r == DeserialiseOp(Enter(c, i), proto)
       IN DeserialiseEachEmplaceAfter(Leave(r.c, c), InsertAt(elems, i, r.o), proto, i + 1, n)

\* key_type Key; mapped_type Value; a_KeyFunctor( *this, Key );
\* a_ValueFunctor( *this, Value ); o_Container.emplace( make_pair( Key, Value ) );
DeserialiseEachKeyValue(c, x, i, n) ==
  IF i > n \/ Halted(c) THEN [c |-> c, o |-> x]
  ELSE IF FunctorThrows(c, i) THEN [c |-> [c EXCEPT !.thrown = TRUE], o |-> x]
  ELSE LET rk == DeserialiseOp(Enter(c, i), x.p.v[1])
           rv == DeserialiseOp(rk.c, x.p.v[2])
       IN IF Halted(rv.c) THEN [c |-> Leave(rv.c, c), o |-> x]
          ELSE DeserialiseEachKeyValue(Leave(rv.c, c),
                 [x EXCEPT !.v = Emplace(x.k, x.v, Pair(rk.o, rv.o))], i + 1, n)

\* value_type Value; a_Functor( *this, Value ); o_Container.emplace( Value );
DeserialiseEachValue(c, x, i, n) ==
  IF i > n \/ Halted(c) THEN [c |-> c, o |-> x]
  ELSE IF FunctorThrows(c, i) THEN [c |-> [c EXCEPT !.thrown = TRUE], o |-> x]
  ELSE LET r == DeserialiseOp(Enter(c, i), x.p)
       IN IF Halted(r.c) THEN [c |-> Leave(r.c, c), o |-> x]
          ELSE DeserialiseEachValue(Leave(r.c, c),
                 [x EXCEPT !.v = Emplace(x.k, x.v, r.o)], i + 1, n)

\* ( ( *this >> std::get< Idx >( a_Object ) ), ... )
DeserialiseVariadic(c, slots, i) ==
  IF i > Len(slots) \/ Halted(c) THEN [c |-> c, o |-> slots]
  ELSE LET r == DeserialiseOp(Enter(c, i), slots[i])
       IN DeserialiseVariadic(Leave(r.c, c), [slots EXCEPT ![i] = r.o], i + 1)

\* read the size, o_Container.resize( Size ), read the characters
DeserialiseAsContainerString(c, x) ==
  LET h == ReadSize(c)
      r == DeserialiseAsMemory(h.c, SizeofChar * h.n)
  IN IF Halted(h.c) \/ Halted(r.c) THEN [c |-> r.c, o |-> x]
     ELSE [c |-> r.c, o |-> [x EXCEPT !.v = r.b]]

\* DeserialiseAsContainerFixed without Size = N < Size ? N : Size
DeserialiseAsContainerFixedNoClamp(c, x) ==
  LET h == ReadSize(c)
      r == DeserialiseEach(h.c, x.v, 1, h.n)
  IN [c |-> r.c, o |-> [x EXCEPT !.v = r.o]]

\* DeserialiseAsContainerFixed that steps over the stored elements beyond N
DeserialiseAsContainerFixedSkipRest(c, x) ==
  LET h == ReadSize(c)
      Size == IF Len(x.v) < h.n THEN Len(x.v) ELSE h.n
      r == DeserialiseEach(h.c, x.v, 1, Size)
      skip == IF Halted(r.c) THEN r.c
              ELSE DeserialiseAsMemory(r.c, (h.n - Size) * Sizeof(x.p)).c
  IN [c |-> skip, o |-> [x EXCEPT !.v = r.o]]

\* DeserialiseAsContainerFixed that value-initialises the slots beyond Size
DeserialiseAsContainerFixedResetRest(c, x) ==
  LET h == ReadSize(c)
      Size == IF Len(x.v) < h.n THEN Len(x.v) ELSE h.n
      r == DeserialiseEach(h.c, x.v, 1, Size)
  IN [c |-> r.c,
      o |-> [x EXCEPT !.v = [j \in 1..Len(x.v) |-> IF j <= Size THEN r.o[j] ELSE x.p]]]

\* read the size, Size = N < Size ? N : Size, read Size elements in place
DeserialiseAsContainerFixed(c, x) ==
  LET h == ReadSize(c)
      Size == IF Len(x.v) < h.n THEN Len(x.v) ELSE h.n
      r == DeserialiseEach(h.c, x.v, 1, Size)
  IN [c |-> r.c, o |-> [x EXCEPT !.v = r.o]]

\* o_Container.resize( Size ): keep the first Size elements, pad with T()
Resize(x, Size) == [j \in 1..Size |-> IF j <= Len(x.v) THEN x.v[j] ELSE x.p]

\* std::vector, std::deque: read the size, resize, read each element in place
DeserialiseAsContainerResize(c, x) ==
  LET h == ReadSize(c)
  IN IF Halted(h.c) THEN [c |-> h.c, o |-> x]
     ELSE IF h.n > BufSize THEN [c |-> [h.c EXCEPT !.ub = TRUE], o |-> x]
     ELSE LET r == DeserialiseEach(h.c, Resize(x, h.n), 1, h.n)
          IN [c |-> r.c, o |-> [x EXCEPT !.v = r.o]]

\* DeserialiseAsContainerList with o_Container.clear() ahead of the loop
DeserialiseAsContainerListCleared(c, x) ==
  LET h == ReadSize(c)
  IN IF Halted(h.c) THEN [c |-> h.c, o |-> x]
     ELSE IF h.n > BufSize THEN [c |-> [h.c EXCEPT !.ub = TRUE], o |-> x]
     ELSE LET r == DeserialiseEachEmplaceBack(h.c, <<>>, x.p, 1, h.n)
          IN [c |-> r.c, o |-> [x EXCEPT !.v = r.o]]

\* std::list: read the size, emplace_back and read each element
DeserialiseAsContainerList(c, x) ==
  LET h == ReadSize(c)
  IN IF Halted(h.c) THEN [c |-> h.c, o |-> x]
     ELSE IF h.n > BufSize THEN [c |-> [h.c EXCEPT !.ub = TRUE], o |-> x]
     ELSE LET r == DeserialiseEachEmplaceBack(h.c, x.v, x.p, 1, h.n)
          IN [c |-> r.c, o |-> [x EXCEPT !.v = r.o]]

\* std::forward_list: read the size, emplace_after and read each element
DeserialiseAsContainerForwardList(c, x) ==
  LET h == ReadSize(c)
  IN IF Halted(h.c) THEN [c |-> h.c, o |-> x]
     ELSE IF h.n > BufSize THEN [c |-> [h.c EXCEPT !.ub = TRUE], o |-> x]
     ELSE LET r == DeserialiseEachEmplaceAfter(h.c, x.v, x.p, 1, h.n)
          IN [c |-> r.c, o |-> [x EXCEPT !.v = r.o]]

\* the map overloads: read the size, read and emplace each key and value
DeserialiseAsContainerMap(c, x) ==
  LET h == ReadSize(c)
  IN IF Halted(h.c) THEN [c |-> h.c, o |-> x]
     ELSE IF h.n > BufSize THEN [c |-> [h.c EXCEPT !.ub = TRUE], o |-> x]
     ELSE DeserialiseEachKeyValue(h.c, x, 1, h.n)

\* the set overloads: read the size, read and emplace each value
DeserialiseAsContainerSet(c, x) ==
  LET h == ReadSize(c)
  IN IF Halted(h.c) THEN [c |-> h.c, o |-> x]
     ELSE IF h.n > BufSize THEN [c |-> [h.c EXCEPT !.ub = TRUE], o |-> x]
     ELSE DeserialiseEachValue(h.c, x, 1, h.n)

\* move the queue into the helper, read the heap, move the helper back
DeserialiseAsContainerPriorityQueue(c, q) ==
  LET Helper == PriorityQueueHelper(q)
      r == DeserialiseAsContainerResize(c, [Helper.moved EXCEPT !.v = Helper.Heap])
  IN IF r.c.thrown THEN [c |-> r.c, o |-> Helper.moved] ELSE r

\* void OnDeserialise( Deserialiser& a_Deserialiser )
\*   { a_Deserialiser >> Member1 >> Member2 ...; }
OnDeserialise(c, x) ==
  LET r == DeserialiseVariadic(c, x.v[1], 1)
  IN [c |-> r.c, o |-> [x EXCEPT !.v = <<r.o, x.v[2]>>]]

\* Deserialise with OnAfterDeserialise called ahead of the core step
DeserialiseAfterFirst(c, x) ==
  LET c1 == IF HasOn("OnBeforeDeserialise", x) THEN Event(c, "OnBeforeDeserialise") ELSE c
      c2 == IF HasOn("OnAfterDeserialise", x) THEN Event(c1, "OnAfterDeserialise") ELSE c1
  IN IF HasOn("OnDeserialise", x) THEN OnDeserialise(Event(c2, "OnDeserialise"), x)
     ELSE LET m == DeserialiseAsMemory(Event(c2, "AsMemory"), Sizeof(x))
          IN [c |-> m.c, o |-> IF m.c.ub THEN x ELSE FromRepr(x, m.b)]

\* Serialisation::Deserialise< T >
Deserialise(c, x) ==
  LET c1 == IF HasOn("OnBeforeDeserialise", x) THEN Event(c, "OnBeforeDeserialise") ELSE c
      r == IF HasOn("OnDeserialise", x) THEN OnDeserialise(Event(c1, "OnDeserialise"), x)
           ELSE LET m == DeserialiseAsMemory(Event(c1, "AsMemory"), Sizeof(x))
                IN [c |-> m.c, o |-> IF m.c.ub THEN x ELSE FromRepr(x, m.b)]
  IN IF Halted(r.c) THEN r
     ELSE IF HasOn("OnAfterDeserialise", x)
          THEN [c |-> Event(r.c, "OnAfterDeserialise"), o |-> r.o]
     ELSE r

\* operator>>: overload resolution of DeserialiseAsContainer( o_ObjectOrContainer )
DeserialiseOp(c, x) ==
  IF Halted(c) THEN [c |-> c, o |-> x]
  ELSE IF x.k \in VariadicKinds
       THEN LET r == DeserialiseVariadic(Event(c, "AsContainer"), x.v, 1)
            IN [c |-> r.c, o |-> [x EXCEPT !.v = r.o]]
  ELSE IF x.k = "string" THEN DeserialiseAsContainerString(Event(c, "AsContainer"), x)
  ELSE IF x.k \in FixedKinds THEN DeserialiseAsContainerFixed(Event(c, "AsContainer"), x)
  ELSE IF x.k \in {"vector", "deque", "queue", "stack"}
       THEN DeserialiseAsContainerResize(Event(c, "AsContainer"), x)
  ELSE IF x.k = "list" THEN DeserialiseAsContainerList(Event(c, "AsContainer"), x)
  ELSE IF x.k = "forward_list"
       THEN DeserialiseAsContainerForwardList(Event(c, "AsContainer"), x)
  ELSE IF x.k = "priority_queue"
       THEN DeserialiseAsContainerPriorityQueue(Event(c, "AsContainer"), x)
  ELSE IF x.k \in MapKinds THEN DeserialiseAsContainerMap(Event(c, "AsContainer"), x)
  ELSE IF x.k \in SetKinds THEN DeserialiseAsContainerSet(Event(c, "AsContainer"), x)
  ELSE Deserialise(c, x)

\* -------------------------------------------------- std::priority_queue
\* h with elements i and j exchanged
Swap(h, i, j) == [h EXCEPT ![i] = h[j], ![j] = h[i]]

RECURSIVE SiftUp(_, _)
\* std::push_heap: move element i up while it is greater than its parent
SiftUp(h, i) ==
  IF i > 1 /\ h[i \div 2].v < h[i].v THEN SiftUp(Swap(h, i, i \div 2), i \div 2) ELSE h

RECURSIVE SiftDown(_, _)
\* std::pop_heap: move element i down while a child is greater
SiftDown(h, i) ==
  LET l == 2 * i
      r == 2 * i + 1
      m1 == IF l <= Len(h) /\ h[l].v > h[i].v THEN l ELSE i
      m2 == IF r <= Len(h) /\ h[r].v > h[m1].v THEN r ELSE m1
  IN IF m2 = i THEN h ELSE SiftDown(Swap(h, i, m2), m2)

\* priority_queue::push: c.push_back( x ); std::push_heap( c.begin(), c.end() )
PushHeap(h, x) == SiftUp(Append(h, x), Len(h) + 1)

\* priority_queue::pop: std::pop_heap( c.begin(), c.end() ); c.pop_back()
PopHeap(h) ==
  IF Len(h) <= 1 THEN <<>>
  ELSE SiftDown(SubSeq([h EXCEPT ![1] = h[Len(h)]], 1, Len(h) - 1), 1)

RECURSIVE PopOrder(_)
\* the elements in the order repeated top() / pop() yields them
PopOrder(h) == IF Len(h) = 0 THEN <<>> ELSE <<h[1]>> \o PopOrder(PopHeap(h))

RECURSIVE PushAll(_, _)
\* the heap after pushing the elements of q in order onto h
PushAll(h, q) == IF Len(q) = 0 THEN h ELSE PushAll(PushHeap(h, q[1]), Tail(q))

\* ------------------------------------------------------- value equality
\* number of elements of q equal to e
Count(q, e) == Cardinality({j \in 1..Len(q) : q[j] = e})

\* q and r hold the same elements with the same multiplicities
SameBag(q, r) == Len(q) = Len(r) /\ \A j \in 1..Len(q) : Count(q, q[j]) = Count(r, q[j])

RECURSIVE Equal(_, _)
\* operator== of the type; for a user struct it compares the data members,
\* for the unordered containers it ignores iteration order, and a priority
\* queue is observed through the order in which it pops
Equal(a, b) ==
  IF a.k # b.k THEN FALSE
  ELSE IF a.k = "obj" THEN a.p = b.p /\ a.v[1] = b.v[1]
  ELSE IF a.k \in {"unordered_map", "unordered_multimap", "unordered_set", "unordered_multiset"}
       THEN SameBag(a.v, b.v)
  ELSE IF a.k = "priority_queue" THEN PopOrder(a.v) = PopOrder(b.v)
  ELSE IF a.k \in LeafKinds \cup {"string"} THEN a = b
  ELSE Len(a.v) = Len(b.v) /\ \A j \in 1..Len(a.v) : Equal(a.v[j], b.v[j])

RECURSIVE Fresh(_)
\* a value-initialised object of x's type: T x{};
Fresh(x) ==
  IF x.k \in LeafKinds THEN [x EXCEPT !.v = 0]
  ELSE IF x.k = "obj"
       THEN [x EXCEPT !.v = <<[j \in 1..Len(x.v[1]) |-> Fresh(x.v[1][j])],
                              [j \in 1..Len(x.v[2]) |-> 0]>>]
  ELSE IF x.k \in VariadicKinds THEN [x EXCEPT !.v = [j \in 1..Len(x.v) |-> Fresh(x.v[j])]]
  ELSE IF x.k \in FixedKinds THEN [x EXCEPT !.v = [j \in 1..Len(x.v) |-> x.p]]
  ELSE [x EXCEPT !.v = <<>>]

\* ------------------------------------------------------ values handled
IntPool == {IntV(-2), IntV(258)}
CharPool == {97, 98}
HeapPool == {IntV(1), IntV(3), IntV(5)}

\* the seven On* functions the dispatcher looks for
AllHooks ==
  {"OnBeforeSerialise", "OnSerialise", "OnAfterSerialise", "OnSize",
   "OnBeforeDeserialise", "OnDeserialise", "OnAfterDeserialise"}

\* struct { char Tag; int Int; } declaring the functions h; the three bytes
\* between Tag and Int are padding
ObjA(h) == Obj(h, <<CharV(65), IntV(258)>>, <<0, 0, 0>>)
ObjB(h) == Obj(h, <<CharV(66), IntV(-2)>>, <<204, 204, 204>>)

RECURSIVE WriteAll(_, _)
\* s << q[1] << q[2] << ...
WriteAll(s, q) == IF Len(q) = 0 THEN s ELSE WriteAll(SerialiseOp(s, q[1]), Tail(q))

RECURSIVE EmplaceAll(_, _, _)
\* the associative container reached by emplacing the elements of q in order
EmplaceAll(kind, elems, q) ==
  IF Len(q) = 0 THEN elems ELSE EmplaceAll(kind, Emplace(kind, elems, q[1]), Tail(q))

LeafValues == {CharV(65), IntV(-2), IntV(258), IntV(5)}
StringValues == {Str(q) : q \in SeqsUpTo(CharPool, MaxLen)}
SequenceValues ==
  {Cont(kd, IntV(0), q) : kd \in SequenceKinds \cup AdapterKinds, q \in SeqsUpTo(IntPool, MaxLen)}
FixedValues ==
  {Cont(kd, IntV(0), q) : kd \in FixedKinds, q \in SeqsUpTo(IntPool, MaxCap) \ {<<>>}}
EntryPool == {Pair(CharV(c), n) : c \in CharPool, n \in IntPool}
MapValues ==
  {Cont(kd, Pair(CharV(0), IntV(0)), EmplaceAll(kd, <<>>, q)) :
     kd \in MapKinds, q \in SeqsUpTo(EntryPool, MaxLen)}
SetValues ==
  {Cont(kd, IntV(0), EmplaceAll(kd, <<>>, q)) :
     kd \in SetKinds, q \in SeqsUpTo(IntPool \cup {IntV(5)}, MaxLen)}
PriorityQueueValues ==
  {Cont("priority_queue", IntV(0), PushAll(<<>>, q)) : q \in SeqsUpTo(HeapPool, MaxLen)}
VariadicValues ==
  {Pair(CharV(c), n) : c \in CharPool, n \in IntPool}
  \cup {Tuple(<<n, CharV(c), Str(<<c>>)>>) : c \in CharPool, n \in IntPool}
  \cup {Pair(ObjB(AllHooks), Str(<<98>>))}
\* ExampleStruct of the header: a string, an int and a vector of int, streamed
\* in that order by OnSerialise, OnDeserialise and OnSize
ExampleStruct(h) ==
  Obj(h, <<Str(<<97, 98, 99>>), IntV(42), Cont("vector", IntV(0), <<IntV(1), IntV(2), IntV(3)>>)>>,
      <<>>)
ExampleValues ==
  {ExampleStruct(h) : h \in {{"OnSerialise", "OnDeserialise", "OnSize"}, AllHooks}}
ObjValues == {ObjA(h) : h \in SUBSET AllHooks} \cup {ObjB(h) : h \in SUBSET AllHooks}
NestedValues ==
  UNION {{Cont("vector", Fresh(ObjA(h)), q) : q \in SeqsUpTo({ObjA(h), ObjB(h)}, MaxLen)} :
           h \in {AllHooks, {}, {"OnSerialise", "OnDeserialise", "OnSize"}}}
  \cup {Cont("vector", Str(<<>>), q) : q \in SeqsUpTo({Str(<<>>), Str(<<97, 98>>)}, 2)}
  \cup {Cont("list", Pair(CharV(0), IntV(0)), q) : q \in SeqsUpTo(EntryPool, 2)}

Values ==
  LeafValues \cup StringValues \cup SequenceValues \cup FixedValues \cup MapValues
  \cup SetValues \cup PriorityQueueValues \cup VariadicValues \cup ObjValues \cup NestedValues
  \cup ExampleValues

\* what the host processes: one value, or a value followed by an int
Programs == {<<x>> : x \in Values} \cup {<<x, IntV(5)>> : x \in Values}

\* the object the host reads x's bytes into: a fresh object of x's type
\* (n = 0) or, for a fixed-size container, a fresh one of capacity n
Destination(x, n) == IF n = 0 THEN Fresh(x) ELSE Cont(x.k, x.p, Rep(x.p, n))

\* the container kinds a host may read the bytes of x as, other than x's own:
\* they share the layout count, elements
Recast(x) ==
  IF x.k = "vector" /\ x.p.k = "int" THEN {"priority_queue"}
  ELSE IF x.k = "multimap" THEN {"map"}
  ELSE IF x.k = "unordered_multimap" THEN {"unordered_map"}
  ELSE IF x.k = "multiset" THEN {"set"}
  ELSE IF x.k = "unordered_multiset" THEN {"unordered_set"}
  ELSE {}

\* element number j a host's destination container holds before the read
Held(x, j) ==
  IF x.k = "string" THEN 98 + j
  ELSE IF x.p.k = "pair" THEN Pair(CharV(96 + j), IntV(4 + j))
  ELSE IntV(4 + j)

\* the kinds read into a destination that already holds elements
RefillKinds ==
  {"string", "vector", "deque", "list", "forward_list"} \cup MapKinds \cup SetKinds

\* a destination of x's type that already holds n elements
Prefilled(x, n) ==
  LET q == [j \in 1..n |-> Held(x, j)]
  IN IF x.k \in MapKinds \cup SetKinds THEN Cont(x.k, x.p, EmplaceAll(x.k, <<>>, q))
     ELSE [x EXCEPT !.v = q]

\* invocations of the element functor that may throw (0: none does)
ThrowChoices(x) == IF x.k \in {"priority_queue", "vector"} THEN 0..Len(x.v) ELSE {0}

\* Sizer, Serialiser and Deserialiser instances of their own for the values q,
\* the Deserialiser over a buffer that holds the encodings of q; out is what
\* it has read and m, w, r count the calls made on each
NewPeer(q) ==
  [items |-> q, sizer |-> NewSizer, ser |-> NewSerialiser,
   des |-> NewDeserialiser(WriteAll(NewSerialiser, q).m_Data), out |-> <<>>,
   m |-> 0, w |-> 0, r |-> 0]

\* the contexts that may be handed one priority_queue: the host's Sizer, the
\* host's Serialiser and the second Serialiser, each on a thread of its own
Contexts == {"sizer", "ser", "peer"}

\* no priority_queue overload entered: no PriorityQueueHelper alive; pc is the
\* statement the context is at, Heap what its Helper owns, seen the elements
\* its loop went over
NoCalls == [c \in Contexts |-> [pc |-> "idle", Heap |-> <<>>, seen |-> <<>>]]

\* ------------------------------------------------------------- the host
VARIABLES
  items,   \* the host's values, in the order it processes them
  orig,    \* the values as they were before any operation
  sizer,   \* the Sizer
  ser,     \* the Serialiser and the buffer it writes
  des,     \* the Deserialiser over the same buffer
  mdone,   \* record of the sizer + value calls made
  wdone,   \* record of the serialiser << value calls made
  rdone,   \* record of the deserialiser >> value calls made
  peer,    \* a second Sizer, Serialiser and Deserialiser with buffers of their own
  calls    \* the priority_queue overloads in progress, one per context

vars == <<items, orig, sizer, ser, des, mdone, wdone, rdone, peer, calls>>

Init ==
  /\ items \in Programs
  /\ orig = items
  /\ sizer = NewSizer
  /\ ser = NewSerialiser
  /\ des = NewDeserialiser(NewSerialiser.m_Data)
  /\ mdone = <<>>
  /\ wdone = <<>>
  /\ rdone = <<>>
  /\ peer = NewPeer(<<>>)
  /\ calls = NoCalls

\* sizer + items[i], the element functor throwing on invocation t
Measure(t) ==
  /\ Len(mdone) < Len(items)
  /\ ~sizer.thrown
  /\ LET i == Len(mdone) + 1
         z == SizeOfOp([sizer EXCEPT !.throwAt = t, !.obj = items[i]], items[i])
     IN /\ t \in ThrowChoices(items[i])
        /\ sizer' = z
        /\ items' = [items EXCEPT ![i] = z.obj]
        /\ mdone' = Append(mdone, [val |-> items[i], from |-> sizer.m_Size, to |-> z.m_Size,
                                   thrown |-> z.thrown, post |-> z.obj,
                                   log |-> SubSeq(z.log, Len(sizer.log) + 1, Len(z.log))])
  /\ UNCHANGED <<orig, ser, des, wdone, rdone, peer, calls>>

\* serialiser << items[i], the element functor throwing on invocation t
Write(t) ==
  /\ Len(wdone) < Len(items)
  /\ ~ser.thrown
  /\ LET i == Len(wdone) + 1
         s == SerialiseOp([ser EXCEPT !.throwAt = t, !.obj = items[i]], items[i])
     IN /\ t \in ThrowChoices(items[i])
        /\ ~s.ub
        /\ ser' = s
        /\ des' = [des EXCEPT !.m_Data = s.m_Data]
        /\ items' = [items EXCEPT ![i] = s.obj]
        /\ wdone' = Append(wdone, [val |-> items[i], from |-> ser.m_Head, to |-> s.m_Head,
                                   thrown |-> s.thrown, post |-> s.obj,
                                   log |-> SubSeq(s.log, Len(ser.log) + 1, Len(s.log))])
  /\ UNCHANGED <<orig, sizer, mdone, rdone, peer, calls>>

\* deserialiser >> dst for the next written value, dst being Destination( , n)
\* and the element functor throwing on invocation t
Read(n, t) ==
  /\ Len(rdone) < Len(wdone)
  /\ ~ser.thrown
  /\ ~des.thrown
  /\ ~des.corrupt
  /\ LET i == Len(rdone) + 1
         dst == Destination(orig[i], n)
         r == DeserialiseOp([des EXCEPT !.throwAt = t], dst)
     IN /\ n = 0 \/ orig[i].k \in FixedKinds
        /\ t \in ThrowChoices(orig[i])
        /\ ~r.c.ub
        /\ des' = r.c
        /\ rdone' = Append(rdone, [from |-> des.m_Head, to |-> r.c.m_Head,
                                   thrown |-> r.c.thrown, corrupt |-> r.c.corrupt,
                                   log |-> SubSeq(r.c.log, Len(des.log) + 1, Len(r.c.log)),
                                   dst |-> dst, out |-> r.o])
  /\ UNCHANGED <<items, orig, sizer, ser, mdone, wdone, peer, calls>>

\* deserialiser >> dst for the next written value, dst being an empty
\* container of another kind kd with the same layout
ReadAs(kd) ==
  /\ Len(rdone) < Len(wdone)
  /\ ~ser.thrown
  /\ ~des.thrown
  /\ ~des.corrupt
  /\ LET i == Len(rdone) + 1
         dst == Cont(kd, orig[i].p, <<>>)
         r == DeserialiseOp([des EXCEPT !.throwAt = 0], dst)
     IN /\ kd \in Recast(orig[i])
        /\ ~r.c.ub
        /\ des' = r.c
        /\ rdone' = Append(rdone, [from |-> des.m_Head, to |-> r.c.m_Head,
                                   thrown |-> r.c.thrown, corrupt |-> r.c.corrupt,
                                   log |-> SubSeq(r.c.log, Len(des.log) + 1, Len(r.c.log)),
                                   dst |-> dst, out |-> r.o])
  /\ UNCHANGED <<items, orig, sizer, ser, mdone, wdone, peer, calls>>

\* deserialiser >> dst for the next written value, dst being a container of
\* the written type that already holds n elements (a fixed-size container of
\* capacity n whose slots hold values assigned earlier)
ReadInto(n) ==
  /\ Len(rdone) < Len(wdone)
  /\ ~ser.thrown
  /\ ~des.thrown
  /\ ~des.corrupt
  /\ LET i == Len(rdone) + 1
         dst == Prefilled(orig[i], n)
         r == DeserialiseOp([des EXCEPT !.throwAt = 0], dst)
     IN /\ orig[i].k \in RefillKinds \cup FixedKinds
        /\ IF orig[i].k = "string" THEN TRUE ELSE orig[i].p.k \in {"int", "pair"}
        /\ ~r.c.ub
        /\ des' = r.c
        /\ rdone' = Append(rdone, [from |-> des.m_Head, to |-> r.c.m_Head,
                                   thrown |-> r.c.thrown, corrupt |-> r.c.corrupt,
                                   log |-> SubSeq(r.c.log, Len(des.log) + 1, Len(r.c.log)),
                                   dst |-> dst, out |-> r.o])
  /\ UNCHANGED <<items, orig, sizer, ser, mdone, wdone, peer, calls>>

Next ==
  \/ \E t \in 0..MaxLen : Measure(t)
  \/ \E t \in 0..MaxLen : Write(t)
  \/ \E n \in 0..MaxCap : \E t \in 0..MaxLen : Read(n, t)
  \/ \E kd \in ContainerKinds : ReadAs(kd)
  \/ \E n \in 1..MaxCap : ReadInto(n)

Spec == Init /\ [][Next]_vars

\* ------------------------------------------------- instances side by side
\* the values the host and the second set of instances process side by side
ParValues ==
  {Str(<<97, 98>>), Cont("vector", IntV(0), <<IntV(-2), IntV(258)>>),
   ObjA({"OnSerialise", "OnDeserialise", "OnSize"}),
   Cont("priority_queue", IntV(0), <<IntV(5), IntV(1), IntV(3)>>)}
ParPrograms == {<<x, IntV(5)>> : x \in ParValues}

InitPar ==
  /\ items \in ParPrograms
  /\ orig = items
  /\ sizer = NewSizer
  /\ ser = NewSerialiser
  /\ des = NewDeserialiser(NewSerialiser.m_Data)
  /\ mdone = <<>>
  /\ wdone = <<>>
  /\ rdone = <<>>
  /\ peer \in {NewPeer(q) : q \in ParPrograms}
  /\ calls = NoCalls

\* the second Sizer: sizer2 + value
PeerMeasure ==
  /\ peer.m < Len(peer.items)
  /\ peer' = [peer EXCEPT !.sizer = SizeOfOp(peer.sizer, peer.items[peer.m + 1]),
                          !.m = @ + 1]
  /\ UNCHANGED <<items, orig, sizer, ser, des, mdone, wdone, rdone, calls>>

\* PeerWrite with m_Head a static member: one cursor for all Serialisers
PeerWriteSharedHead ==
  /\ peer.w < Len(peer.items)
  /\ LET s == SerialiseOp([peer.ser EXCEPT !.m_Head = ser.m_Head], peer.items[peer.w + 1])
     IN /\ ~s.ub
        /\ peer' = [peer EXCEPT !.ser = s, !.w = @ + 1]
        /\ ser' = [ser EXCEPT !.m_Head = s.m_Head]
  /\ UNCHANGED <<items, orig, sizer, des, mdone, wdone, rdone, calls>>

\* the second Serialiser, over its own buffer: serialiser2 << value
PeerWrite ==
  /\ peer.w < Len(peer.items)
  /\ LET s == SerialiseOp(peer.ser, peer.items[peer.w + 1])
     IN /\ ~s.ub
        /\ peer' = [peer EXCEPT !.ser = s, !.w = @ + 1]
  /\ UNCHANGED <<items, orig, sizer, ser, des, mdone, wdone, rdone, calls>>

\* the second Deserialiser, over its own buffer: deserialiser2 >> value
PeerRead ==
  /\ peer.r < Len(peer.items)
  /\ LET r == DeserialiseOp(peer.des, Fresh(peer.items[peer.r + 1]))
     IN /\ ~r.c.ub
        /\ peer' = [peer EXCEPT !.des = r.c, !.out = Append(@, r.o), !.r = @ + 1]
  /\ UNCHANGED <<items, orig, sizer, ser, des, mdone, wdone, rdone, calls>>

NextPar ==
  \/ Measure(0)
  \/ Write(0)
  \/ Read(0, 0)
  \/ PeerMeasure
  \/ PeerWrite
  \/ PeerRead

SpecPar == InitPar /\ [][NextPar]_vars

\* --------------------------------------- one priority_queue, two contexts
\* one non-empty priority_queue, handed to every context by const reference
SharedValues == {q \in PriorityQueueValues : Len(q.v) > 0}

InitShared ==
  /\ items \in {<<q>> : q \in SharedValues}
  /\ orig = items
  /\ sizer = NewSizer
  /\ ser = NewSerialiser
  /\ des = NewDeserialiser(NewSerialiser.m_Data)
  /\ mdone = <<>>
  /\ wdone = <<>>
  /\ rdone = <<>>
  /\ peer = NewPeer(<<>>)
  /\ calls = NoCalls

\* PriorityQueueHelper Helper( std::move( const_cast< ... >( a_Container ) ) ):
\* context c takes the elements the queue holds at this moment and leaves the
\* caller's queue moved-from. The statement is taken as one step; with no
\* lock around it the build may also tear it.
MoveIntoHelper(c) ==
  /\ calls[c].pc = "idle"
  /\ LET Helper == PriorityQueueHelper(items[1])
     IN /\ calls' = [calls EXCEPT ![c] = [pc |-> "held", Heap |-> Helper.Heap, seen |-> <<>>]]
        /\ items' = <<Helper.moved>>
  /\ UNCHANGED <<orig, sizer, ser, des, mdone, wdone, rdone, peer>>

\* SerialiseAsContainer( Helper.Heap, ... ) / AddSizeOfContainer( Helper.Heap,
\* ... ): context c goes over what its own Helper holds
WalkHeap(c) ==
  /\ calls[c].pc = "held"
  /\ calls' = [calls EXCEPT ![c].pc = "walked", ![c].seen = calls[c].Heap]
  /\ IF c = "sizer"
       THEN /\ sizer' = AddSizeOfContainer(sizer, calls[c].Heap)
            /\ UNCHANGED <<ser, des, peer>>
     ELSE IF c = "ser"
       THEN /\ ser' = SerialiseAsContainer(ser, calls[c].Heap)
            /\ des' = [des EXCEPT !.m_Data = ser'.m_Data]
            /\ UNCHANGED <<sizer, peer>>
     ELSE /\ peer' = [peer EXCEPT !.ser = SerialiseAsContainer(peer.ser, calls[c].Heap)]
          /\ UNCHANGED <<sizer, ser, des>>
  /\ UNCHANGED <<items, orig, mdone, wdone, rdone>>

\* const_cast< ... >( a_Container ) = std::move( Helper ): the caller's queue
\* is assigned what context c's Helper holds, whatever it held meanwhile
MoveBack(c) ==
  /\ calls[c].pc = "walked"
  /\ items' = <<[items[1] EXCEPT !.v = calls[c].Heap]>>
  /\ calls' = [calls EXCEPT ![c].pc = "done", ![c].Heap = <<>>]
  /\ UNCHANGED <<orig, sizer, ser, des, mdone, wdone, rdone, peer>>

NextShared ==
  \/ \E c \in Contexts : MoveIntoHelper(c)
  \/ \E c \in Contexts : WalkHeap(c)
  \/ \E c \in Contexts : MoveBack(c)

SpecShared == InitShared /\ [][NextShared]_vars

\* ================================================================ claims
\* call number i of each kind has returned normally
Measured(i) == i <= Len(mdone) /\ ~mdone[i].thrown
Written(i) == i <= Len(wdone) /\ ~wdone[i].thrown
ReadBack(i) == i <= Len(rdone) /\ ~rdone[i].thrown /\ ~rdone[i].corrupt

\* read number i took the bytes write number i produced into a fresh object
\* of the written value's type
ReadOfWritten(i) ==
  /\ Written(i)
  /\ ReadBack(i)
  /\ rdone[i].from = wdone[i].from
  /\ rdone[i].dst = Fresh(wdone[i].val)

RECURSIVE CoreHooksAgree(_, _)
\* every user struct in x declares all of the functions H or none of them
CoreHooksAgree(x, H) ==
  IF x.k = "obj" THEN H \subseteq x.p \/ H \cap x.p = {}
  ELSE IF x.k \in LeafKinds \cup {"string"} THEN TRUE
  ELSE \A j \in 1..Len(x.v) : CoreHooksAgree(x.v[j], H)

\* C1 as stated: for every value of every shape, what a Sizer adds for the
\* value equals the number of bytes a Serialiser writes for it.
C1_SizeExactEveryShape ==
  \A i \in 1..Len(orig) :
    Measured(i) /\ Written(i) /\ mdone[i].val = wdone[i].val
      => mdone[i].to - mdone[i].from = wdone[i].to - wdone[i].from

\* C1 amended: the Sizer's total for a value equals the bytes the Serialiser
\* writes for it, for leaves, containers and user structs that declare both
\* OnSize and OnSerialise (processing the same members) or neither.
C1_SizeExact ==
  \A i \in 1..Len(orig) :
    /\ Measured(i) /\ Written(i) /\ mdone[i].val = wdone[i].val
    /\ CoreHooksAgree(wdone[i].val, {"OnSize", "OnSerialise"})
    => mdone[i].to - mdone[i].from = wdone[i].to - wdone[i].from

\* a vector of two hooked structs has been measured and written
C1_Witness ==
  /\ Measured(1) /\ Written(1)
  /\ wdone[1].val.k = "vector" /\ Len(wdone[1].val.v) = 2
  /\ wdone[1].val.p.k = "obj" /\ wdone[1].val.p.p = AllHooks
  /\ mdone[1].to = wdone[1].to /\ wdone[1].to > SizeofSize

\* C2 as stated: for every shape, reading the written bytes into a fresh value
\* of the same type yields a value equal to the one written; for maps and sets
\* the multiset of entries is the same.
C2_RoundTripEveryShape ==
  \A i \in 1..Len(orig) :
    ReadOfWritten(i)
      => /\ Equal(rdone[i].out, wdone[i].val)
         /\ wdone[i].val.k \in MapKinds \cup SetKinds
              => SameBag(rdone[i].out.v, wdone[i].val.v)

\* C2 amended: the round trip holds for leaves, containers and user structs
\* that declare both OnSerialise and OnDeserialise (processing the same
\* members in the same order) or neither.
C2_RoundTrip ==
  \A i \in 1..Len(orig) :
    ReadOfWritten(i) /\ CoreHooksAgree(wdone[i].val, {"OnSerialise", "OnDeserialise"})
      => /\ Equal(rdone[i].out, wdone[i].val)
         /\ wdone[i].val.k \in MapKinds \cup SetKinds
              => SameBag(rdone[i].out.v, wdone[i].val.v)

\* a hash map of two entries has come back with its entries in another order
C2_Witness ==
  /\ ReadOfWritten(1)
  /\ wdone[1].val.k = "unordered_map" /\ Len(wdone[1].val.v) = 2
  /\ rdone[1].out.v # wdone[1].val.v
  /\ SameBag(rdone[1].out.v, wdone[1].val.v)

\* C3 as stated: for every type, the read of a written value consumes exactly
\* the bytes the write produced.
C3_LockStepEveryType ==
  \A i \in 1..Len(orig) : ReadOfWritten(i) => rdone[i].to = wdone[i].to

\* C3 amended: GetBytesRead() after the read equals GetBytesWritten() after the
\* write for leaves, containers and user structs that declare both OnSerialise
\* and OnDeserialise (processing the same members) or neither.
C3_LockStep ==
  \A i \in 1..Len(orig) :
    ReadOfWritten(i) /\ CoreHooksAgree(wdone[i].val, {"OnSerialise", "OnDeserialise"})
      => rdone[i].to = wdone[i].to

\* a multimap of three entries was read back and both cursors stand at 23
C3_Witness ==
  /\ ReadOfWritten(1)
  /\ wdone[1].val.k = "multimap" /\ Len(wdone[1].val.v) = 3
  /\ GetBytesRead(des) = GetBytesWritten(ser)
  /\ GetBytesRead(des) = SizeofSize + 3 * (SizeofChar + SizeofInt)

\* ------------------------------------------------------------- dispatch
\* the events that mark which of the three paths a call took
PathEvents == {"AsContainer", "AsMemory", "OnSerialise", "OnDeserialise", "OnSize"}

\* the paths taken for the value handed to the call whose record is seg
TopPaths(seg) == SelectSeq(seg, LAMBDA e : e.d = 0 /\ e.ev \in PathEvents)

PathKind(ev) ==
  IF ev = "AsContainer" THEN "container" ELSE IF ev = "AsMemory" THEN "memory" ELSE "hook"

\* the call took exactly one path: the container codec if x is a container,
\* else the core function if x declares it, else the raw copy
Resolved(seg, x, core) ==
  /\ Len(TopPaths(seg)) = 1
  /\ PathKind(TopPaths(seg)[1].ev) =
       (IF x.k \in ContainerKinds THEN "container"
        ELSE IF x.k = "obj" /\ core \in x.p THEN "hook" ELSE "memory")

EveryCallResolved ==
  /\ \A i \in 1..Len(mdone) : Resolved(mdone[i].log, mdone[i].val, "OnSize")
  /\ \A i \in 1..Len(wdone) : Resolved(wdone[i].log, wdone[i].val, "OnSerialise")
  /\ \A i \in 1..Len(rdone) : Resolved(rdone[i].log, rdone[i].dst, "OnDeserialise")

\* value number i went through all three operations as one type
ThreeWay(i) ==
  /\ i <= Len(mdone) /\ i <= Len(wdone) /\ i <= Len(rdone)
  /\ rdone[i].dst = Fresh(wdone[i].val)
  /\ Fresh(mdone[i].val) = Fresh(wdone[i].val)

SamePath(i) ==
  /\ PathKind(TopPaths(mdone[i].log)[1].ev) = PathKind(TopPaths(wdone[i].log)[1].ev)
  /\ PathKind(TopPaths(wdone[i].log)[1].ev) = PathKind(TopPaths(rdone[i].log)[1].ev)

\* C4 as stated: every call resolves to exactly one path, tried in the order
\* container, core hook, raw copy, and a type takes the same path for Write,
\* Read and Measure.
C4_DispatchSameForAllThree ==
  /\ EveryCallResolved
  /\ \A i \in 1..Len(orig) : ThreeWay(i) => SamePath(i)

\* C4 amended: every call resolves to exactly one path, tried in the order
\* container, that operation's core hook, raw copy; the path is the same for
\* Write, Read and Measure for containers and for types that declare all
\* three of OnSerialise, OnDeserialise and OnSize or none of them.
C4_Dispatch ==
  /\ EveryCallResolved
  /\ \A i \in 1..Len(orig) :
       /\ ThreeWay(i)
       /\ wdone[i].val.k = "obj" =>
            \/ {"OnSerialise", "OnDeserialise", "OnSize"} \subseteq wdone[i].val.p
            \/ {"OnSerialise", "OnDeserialise", "OnSize"} \cap wdone[i].val.p = {}
       => SamePath(i)

\* a struct declaring the three core functions took the hook path three times
C4_Witness ==
  /\ ThreeWay(1)
  /\ wdone[1].val.k = "obj"
  /\ wdone[1].val.p = {"OnSerialise", "OnDeserialise", "OnSize"}
  /\ PathKind(TopPaths(mdone[1].log)[1].ev) = "hook"
  /\ PathKind(TopPaths(wdone[1].log)[1].ev) = "hook"
  /\ PathKind(TopPaths(rdone[1].log)[1].ev) = "hook"

\* ---------------------------------------------------------------- hooks
\* the On* functions called, in order, for element n at depth d
HookCalls(seg, d, n) ==
  LET sel == SelectSeq(seg, LAMBDA e : e.d = d /\ e.n = n /\ e.ev \in AllHooks)
  IN [j \in 1..Len(sel) |-> sel[j].ev]

\* the functions of order that x declares, in that order
Declared(x, order) == SelectSeq(order, LAMBDA h : h \in x.p)

\* the calls recorded in seg for x are exactly the declared functions of order
HooksAsDeclared(seg, x, order) ==
  /\ x.k = "obj" => HookCalls(seg, 0, 0) = Declared(x, order)
  /\ x.k = "vector" /\ x.p.k = "obj" =>
       \A n \in 1..Len(x.v) : HookCalls(seg, 1, n) = Declared(x.v[n], order)

\* C5: a Write of a hooked object calls OnBeforeSerialise, OnSerialise,
\* OnAfterSerialise and a Read OnBeforeDeserialise, OnDeserialise,
\* OnAfterDeserialise, each declared one exactly once and in that order,
\* and nothing else: no undeclared hook and no hook of the other operation.
C5_HookOrder ==
  /\ \A i \in 1..Len(wdone) :
       ~wdone[i].thrown =>
         HooksAsDeclared(wdone[i].log, wdone[i].val,
                         <<"OnBeforeSerialise", "OnSerialise", "OnAfterSerialise">>)
  /\ \A i \in 1..Len(rdone) :
       ReadBack(i) =>
         HooksAsDeclared(rdone[i].log, rdone[i].out,
                         <<"OnBeforeDeserialise", "OnDeserialise", "OnAfterDeserialise">>)

\* a struct declaring all seven functions was written and read, three calls each
C5_Witness ==
  /\ Written(1) /\ ReadBack(1)
  /\ wdone[1].val.k = "obj" /\ wdone[1].val.p = AllHooks
  /\ HookCalls(wdone[1].log, 0, 0) = <<"OnBeforeSerialise", "OnSerialise", "OnAfterSerialise">>
  /\ HookCalls(rdone[1].log, 0, 0) =
       <<"OnBeforeDeserialise", "OnDeserialise", "OnAfterDeserialise">>

\* ------------------------------------------------------------ raw copies
\* x matches no container shape and declares no On* function
Plain(x) == x.k \in LeafKinds \/ (x.k = "obj" /\ x.p = {})

\* C6: for a type that is no container and declares no hooks, Write copies the
\* sizeof(T) bytes of the value to the buffer at the cursor and advances the
\* cursor by sizeof(T), Read copies sizeof(T) bytes from the cursor into the
\* value and advances by sizeof(T), and Measure adds sizeof(T).
C6_LeafFallback ==
  /\ \A i \in 1..Len(wdone) :
       Plain(wdone[i].val) =>
         /\ wdone[i].to = wdone[i].from + Sizeof(wdone[i].val)
         /\ SubSeq(ser.m_Data, wdone[i].from + 1, wdone[i].to) = Repr(wdone[i].val)
         /\ \E j \in 1..Len(ser.copies) :
              ser.copies[j] = [at |-> wdone[i].from, n |-> Sizeof(wdone[i].val)]
  /\ \A i \in 1..Len(rdone) :
       Plain(rdone[i].dst) =>
         /\ rdone[i].to = rdone[i].from + Sizeof(rdone[i].dst)
         /\ Repr(rdone[i].out) = SubSeq(des.m_Data, rdone[i].from + 1, rdone[i].to)
         /\ \E j \in 1..Len(des.copies) :
              des.copies[j] = [at |-> rdone[i].from, n |-> Sizeof(rdone[i].dst)]
  /\ \A i \in 1..Len(mdone) :
       Plain(mdone[i].val) => mdone[i].to = mdone[i].from + Sizeof(mdone[i].val)

\* a hook-less struct and then an int were measured, written and read: the int
\* sits at offset 8 and ends at 12 in all three contexts
C6_Witness ==
  /\ Len(mdone) = 2 /\ Len(wdone) = 2 /\ Len(rdone) = 2
  /\ wdone[1].val.k = "obj" /\ wdone[1].val.p = {} /\ wdone[1].val.v[2] = <<204, 204, 204>>
  /\ wdone[2].val = IntV(5)
  /\ wdone[2].from = 8 /\ ser.m_Head = 12 /\ des.m_Head = 12 /\ sizer.m_Size = 12
  /\ rdone[1].out = wdone[1].val /\ rdone[2].out = IntV(5)

\* ------------------------------------------------------- priority queues
\* C7: after Write and after Measure of a priority queue the source queue
\* holds the same elements and pops in the same order as before the call, and
\* a queue read from the written bytes into an empty queue pops in the order
\* of the original.
C7_AdapterRestore ==
  /\ \A i \in 1..Len(wdone) :
       Written(i) /\ wdone[i].val.k = "priority_queue" =>
         /\ wdone[i].post = wdone[i].val
         /\ PopOrder(wdone[i].post.v) = PopOrder(wdone[i].val.v)
  /\ \A i \in 1..Len(mdone) :
       Measured(i) /\ mdone[i].val.k = "priority_queue" =>
         /\ mdone[i].post = mdone[i].val
         /\ PopOrder(mdone[i].post.v) = PopOrder(mdone[i].val.v)
  /\ \A i \in 1..Len(rdone) :
       ReadOfWritten(i) /\ wdone[i].val.k = "priority_queue" =>
         PopOrder(rdone[i].out.v) = PopOrder(wdone[i].val.v)

\* the queue built by pushing 5, 1, 3 was measured, written and read back; it
\* still pops 5, 3, 1 and so does the queue that was read
C7_Witness ==
  /\ Measured(1) /\ ReadOfWritten(1)
  /\ orig[1] = Cont("priority_queue", IntV(0), <<IntV(5), IntV(1), IntV(3)>>)
  /\ items[1] = orig[1]
  /\ PopOrder(items[1].v) = <<IntV(5), IntV(3), IntV(1)>>
  /\ PopOrder(rdone[1].out.v) = <<IntV(5), IntV(3), IntV(1)>>

\* C8: when the processing of an element throws midway through Write, Read or
\* Measure of a priority queue, the caller's queue still holds its elements
\* on exit.
C8_AdapterKeptOnThrow ==
  /\ \A i \in 1..Len(wdone) :
       wdone[i].thrown /\ wdone[i].val.k = "priority_queue" =>
         SameBag(wdone[i].post.v, wdone[i].val.v)
  /\ \A i \in 1..Len(mdone) :
       mdone[i].thrown /\ mdone[i].val.k = "priority_queue" =>
         SameBag(mdone[i].post.v, mdone[i].val.v)
  /\ \A i \in 1..Len(rdone) :
       rdone[i].thrown /\ rdone[i].dst.k = "priority_queue" =>
         Len(rdone[i].out.v) >= Len(rdone[i].dst.v)

\* ------------------------------------------------- fixed-size containers
\* read number i took the bytes of a written fixed-size container into a
\* fresh fixed-size container of the same kind, of whatever capacity
FixedRead(i) ==
  /\ Written(i)
  /\ i <= Len(rdone)
  /\ rdone[i].from = wdone[i].from
  /\ wdone[i].val.k \in FixedKinds
  /\ rdone[i].dst.k = wdone[i].val.k

\* C9: reading a fixed-size container written with length L into a fresh one
\* of capacity N sets slots 0..min(N,L)-1 to the first min(N,L) written
\* elements in order and never writes outside the N slots.
C9_FixedTruncation ==
  \A i \in 1..Len(rdone) :
    FixedRead(i) =>
      LET L == Len(wdone[i].val.v)
          N == Len(rdone[i].dst.v)
      IN /\ ~rdone[i].corrupt
         /\ Len(rdone[i].out.v) = N
         /\ \A j \in 1..Min(N, L) : rdone[i].out.v[j] = wdone[i].val.v[j]

\* three elements were written and read into a capacity of two: the first two
C9_Witness ==
  /\ FixedRead(1)
  /\ Len(wdone[1].val.v) = 3 /\ Len(rdone[1].dst.v) = 2
  /\ rdone[1].out.v = SubSeq(wdone[1].val.v, 1, 2)
  /\ wdone[1].val.v[1] # wdone[1].val.v[2]

\* C10: when the stored count exceeds the capacity N, the read consumes the
\* count header and exactly N elements, does not skip the remaining stored
\* elements, and the next value is read from where the cursor was left, which
\* is not where it was written: it is decoded from element N's successor.
C10_FixedOverflowCursor ==
  \A i \in 1..Len(rdone) :
    FixedRead(i) /\ Len(wdone[i].val.v) > Len(rdone[i].dst.v) =>
      LET N == Len(rdone[i].dst.v)
      IN /\ rdone[i].to = rdone[i].from + SizeofSize + N * Sizeof(rdone[i].dst.p)
         /\ rdone[i].to < wdone[i].to
         /\ i + 1 <= Len(rdone) =>
              /\ rdone[i + 1].from = rdone[i].to
              /\ rdone[i + 1].from # wdone[i + 1].from
              /\ rdone[i + 1].out = wdone[i].val.v[N + 1]
              /\ rdone[i + 1].out # wdone[i + 1].val

\* after three written elements were read into a capacity of one, the int
\* written behind the container was read as the container's second element
C10_Witness ==
  /\ FixedRead(1) /\ Len(rdone) = 2
  /\ Len(wdone[1].val.v) = 3 /\ Len(rdone[1].dst.v) = 1
  /\ wdone[2].val = IntV(5)
  /\ des.m_Head = SizeofSize + 2 * SizeofInt
  /\ rdone[2].out = wdone[1].val.v[2]

\* ---------------------------------------------------------------- cursor
RECURSIVE CopiedBytes(_)
\* the sum of the byte counts of the raw copies q
CopiedBytes(q) == IF Len(q) = 0 THEN 0 ELSE q[1].n + CopiedBytes(Tail(q))

\* every raw copy of q starts where the one before it ended
BackToBack(q) == \A j \in 1..Len(q) : q[j].at = CopiedBytes(SubSeq(q, 1, j - 1))

\* C11: in every state GetBytesWritten() and GetBytesRead() equal the sum of
\* the byte counts of the raw copies made so far, each copy starting where the
\* previous one ended, and no step lowers the Serialiser's cursor, the
\* Deserialiser's cursor or the Sizer's total.
C11_ForwardOnly ==
  /\ [](/\ GetBytesWritten(ser) = CopiedBytes(ser.copies) /\ BackToBack(ser.copies)
        /\ GetBytesRead(des) = CopiedBytes(des.copies) /\ BackToBack(des.copies))
  /\ [][/\ GetBytesWritten(ser') >= GetBytesWritten(ser)
        /\ GetBytesRead(des') >= GetBytesRead(des)
        /\ sizer'.m_Size >= sizer.m_Size]_vars

\* two values were measured, written and read with several raw copies each,
\* and the cursors stand at the end of the last copy
C11_Witness ==
  /\ Len(mdone) = 2 /\ Len(wdone) = 2 /\ Len(rdone) = 2
  /\ Len(ser.copies) >= 3 /\ Len(des.copies) >= 3
  /\ wdone[2].from > 0 /\ rdone[2].from > 0 /\ mdone[2].from > 0
  /\ ser.m_Head = wdone[2].to /\ des.m_Head = rdone[2].to /\ sizer.m_Size = mdone[2].to

\* ----------------------------------------------------------- wire layout
RECURSIVE Wire(_)
RECURSIVE WireAll(_)
\* the encoding the format prescribes for x: a leaf and a struct without
\* OnSerialise as their object bytes, a struct with OnSerialise and a pair or
\* tuple as their members back to back, a string as length and characters,
\* any other container as count and elements
Wire(x) ==
  IF x.k \in LeafKinds THEN LeafRepr(x)
  ELSE IF x.k = "obj" THEN (IF "OnSerialise" \in x.p THEN WireAll(x.v[1]) ELSE Repr(x))
  ELSE IF x.k \in VariadicKinds THEN WireAll(x.v)
  ELSE IF x.k = "string" THEN ToBytes(Len(x.v), SizeofSize) \o x.v
  ELSE ToBytes(Len(x.v), SizeofSize) \o WireAll(x.v)

\* the encodings of the values q back to back
WireAll(q) == IF Len(q) = 0 THEN <<>> ELSE Wire(q[1]) \o WireAll(Tail(q))

\* the bytes write number i left in the buffer
WrittenBytes(i) == SubSeq(ser.m_Data, wdone[i].from + 1, wdone[i].to)

\* x is a struct declaring the three core functions
Composed(x) == x.k = "obj" /\ {"OnSerialise", "OnDeserialise", "OnSize"} \subseteq x.p

\* C12: each call on a context starts where the previous one ended and does
\* what it does on a fresh context: it writes the same bytes, adds the same
\* size, reads the same value; and for a struct whose three core functions
\* stream its members in declaration order the size is the sum of the members'
\* sizes, the bytes are the members' encodings back to back and Write then
\* Read reproduces every member.
C12_SequentialComposition ==
  /\ \A i \in 1..Len(wdone) :
       Written(i) =>
         /\ wdone[i].from = (IF i = 1 THEN 0 ELSE wdone[i - 1].to)
         /\ WrittenBytes(i) =
              SubSeq(SerialiseOp(NewSerialiser, wdone[i].val).m_Data, 1,
                     wdone[i].to - wdone[i].from)
         /\ Composed(wdone[i].val) => WrittenBytes(i) = WireAll(wdone[i].val.v[1])
  /\ \A i \in 1..Len(mdone) :
       Measured(i) =>
         /\ mdone[i].from = (IF i = 1 THEN 0 ELSE mdone[i - 1].to)
         /\ mdone[i].to - mdone[i].from = SizeOfOp(NewSizer, mdone[i].val).m_Size
         /\ Composed(mdone[i].val) =>
              mdone[i].to - mdone[i].from = Len(WireAll(mdone[i].val.v[1]))
  /\ \A i \in 1..Len(rdone) :
       ReadOfWritten(i) /\ rdone[i].to <= wdone[i].to =>
         /\ rdone[i].out =
              DeserialiseOp(NewDeserialiser(SubSeq(des.m_Data, rdone[i].from + 1, BufSize)
                                            \o Rep(0, rdone[i].from)),
                            rdone[i].dst).o
         /\ Composed(wdone[i].val) => rdone[i].out.v[1] = wdone[i].val.v[1]

\* the struct holding "abc", 42 and [1,2,3] was measured as 11 + 4 + 20 bytes,
\* written, followed by an int at offset 35, and both were read back
C12_Witness ==
  /\ Measured(1) /\ ReadOfWritten(1) /\ ReadOfWritten(2)
  /\ wdone[1].val = ExampleStruct({"OnSerialise", "OnDeserialise", "OnSize"})
  /\ mdone[1].to = (SizeofSize + 3 * SizeofChar) + SizeofInt + (SizeofSize + 3 * SizeofInt)
  /\ wdone[1].to = mdone[1].to
  /\ wdone[2].from = wdone[1].to
  /\ rdone[1].out = wdone[1].val
  /\ rdone[2].out = IntV(5)

\* ------------------------------------------------- independent fallback
\* the call recorded in rec, made for the struct x whose members came out as
\* m, went through the function core if x declares core and else was one raw
\* copy of sizeof( x ) bytes
OwnHookOnly(rec, x, m, core) ==
  /\ Len(TopPaths(rec.log)) = 1
  /\ IF core \in x.p
     THEN /\ TopPaths(rec.log)[1].ev = core
          /\ rec.to - rec.from = Len(WireAll(m))
     ELSE /\ TopPaths(rec.log)[1].ev = "AsMemory"
          /\ rec.to - rec.from = Sizeof(x)

\* C14: for a struct each of Write, Read and Measure looks at its own core
\* function only: Write streams the members iff OnSerialise is declared, Read
\* iff OnDeserialise is, Measure iff OnSize is, and the operation whose
\* function is missing copies or adds sizeof(T), whatever the other two do.
C14_IndependentFallback ==
  /\ \A i \in 1..Len(wdone) :
       wdone[i].val.k = "obj" =>
         OwnHookOnly(wdone[i], wdone[i].val, wdone[i].val.v[1], "OnSerialise")
  /\ \A i \in 1..Len(rdone) :
       rdone[i].dst.k = "obj" =>
         OwnHookOnly(rdone[i], rdone[i].dst, rdone[i].out.v[1], "OnDeserialise")
  /\ \A i \in 1..Len(mdone) :
       mdone[i].val.k = "obj" =>
         OwnHookOnly(mdone[i], mdone[i].val, mdone[i].val.v[1], "OnSize")

\* a struct { char; int; } declaring OnSerialise alone was written through
\* the function as 5 bytes, read as a raw copy of 8 and measured as 8
C14_Witness ==
  /\ Len(mdone) >= 1 /\ Len(wdone) >= 1 /\ Len(rdone) >= 1
  /\ wdone[1].val = ObjA({"OnSerialise"})
  /\ TopPaths(wdone[1].log)[1].ev = "OnSerialise"
  /\ wdone[1].to = SizeofChar + SizeofInt
  /\ TopPaths(rdone[1].log)[1].ev = "AsMemory"
  /\ rdone[1].to = SizeofStruct(wdone[1].val.v[1])
  /\ TopPaths(mdone[1].log)[1].ev = "AsMemory"
  /\ mdone[1].to = SizeofStruct(wdone[1].val.v[1])
  /\ mdone[1].to # wdone[1].to

\* ------------------------------------------------------ lifecycle hooks
\* what ran for the value handed to the call whose record is seg, in order
TopEvents(seg) ==
  LET sel == SelectSeq(seg, LAMBDA e : e.d = 0)
  IN [j \in 1..Len(sel) |-> sel[j].ev]

\* x is a struct declaring before or after but not the core function
LifecycleOnly(x, before, core, after) ==
  x.k = "obj" /\ core \notin x.p /\ {before, after} \cap x.p # {}

\* C15: for a struct that declares OnBeforeSerialise and/or OnAfterSerialise
\* but not OnSerialise, Write calls the declared before function, then copies
\* the sizeof(T) object bytes, then calls the declared after function; Read
\* does the same with the Deserialise functions.
C15_LifecycleAroundCopy ==
  /\ \A i \in 1..Len(wdone) :
       LifecycleOnly(wdone[i].val, "OnBeforeSerialise", "OnSerialise", "OnAfterSerialise") =>
         /\ TopEvents(wdone[i].log) =
              Declared(wdone[i].val, <<"OnBeforeSerialise">>) \o <<"AsMemory">>
              \o Declared(wdone[i].val, <<"OnAfterSerialise">>)
         /\ wdone[i].to = wdone[i].from + Sizeof(wdone[i].val)
         /\ WrittenBytes(i) = Repr(wdone[i].val)
  /\ \A i \in 1..Len(rdone) :
       LifecycleOnly(rdone[i].dst, "OnBeforeDeserialise", "OnDeserialise",
                     "OnAfterDeserialise") =>
         /\ TopEvents(rdone[i].log) =
              Declared(rdone[i].dst, <<"OnBeforeDeserialise">>) \o <<"AsMemory">>
              \o Declared(rdone[i].dst, <<"OnAfterDeserialise">>)
         /\ rdone[i].to = rdone[i].from + Sizeof(rdone[i].dst)

\* a struct declaring the four lifecycle functions and no core function was
\* written and read: before, raw copy, after, both times
C15_Witness ==
  /\ Len(wdone) >= 1 /\ Len(rdone) >= 1
  /\ wdone[1].val.k = "obj"
  /\ wdone[1].val.p = {"OnBeforeSerialise", "OnAfterSerialise",
                       "OnBeforeDeserialise", "OnAfterDeserialise"}
  /\ TopEvents(wdone[1].log) = <<"OnBeforeSerialise", "AsMemory", "OnAfterSerialise">>
  /\ TopEvents(rdone[1].log) = <<"OnBeforeDeserialise", "AsMemory", "OnAfterDeserialise">>
  /\ rdone[1].out = wdone[1].val

\* ------------------------------------------------ variable-length layout
\* the kinds written as a count followed by the elements
VariableKinds == SequenceKinds \cup SetKinds \cup MapKinds

\* C16: the bytes written for a sequence, set or map are the element count as
\* an 8-byte size followed by the encodings of exactly that many elements in
\* iteration order, a map entry as its key's encoding then its value's; the
\* bytes written for a string are its length as an 8-byte size followed by its
\* characters; and the cursor ends right behind them.
C16_VariableLayout ==
  \A i \in 1..Len(wdone) :
    Written(i) /\ wdone[i].val.k \in VariableKinds \cup {"string"} =>
      LET x == wdone[i].val
          b == WrittenBytes(i)
          at(j) == SizeofSize + Len(WireAll(SubSeq(x.v, 1, j - 1)))
      IN /\ Len(b) >= SizeofSize
         /\ SubSeq(b, 1, SizeofSize) = ToBytes(Len(x.v), SizeofSize)
         /\ Unsigned(SubSeq(b, 1, SizeofSize)) = Len(x.v)
         /\ x.k = "string" =>
              /\ Len(b) = SizeofSize + SizeofChar * Len(x.v)
              /\ \A j \in 1..Len(x.v) : b[SizeofSize + j] = x.v[j]
         /\ x.k \in VariableKinds =>
              /\ Len(b) = at(Len(x.v) + 1)
              /\ \A j \in 1..Len(x.v) : SubSeq(b, at(j) + 1, at(j + 1)) = Wire(x.v[j])
         /\ x.k \in MapKinds =>
              \A j \in 1..Len(x.v) :
                SubSeq(b, at(j) + 1, at(j + 1)) = Wire(x.v[j].v[1]) \o Wire(x.v[j].v[2])

\* the map { 'a': -2, 'b': 258 } was written as the count 2, then 'a', -2,
\* 'b', 258
C16_Witness ==
  /\ Written(1)
  /\ wdone[1].val = Cont("map", Pair(CharV(0), IntV(0)),
                         <<Pair(CharV(97), IntV(-2)), Pair(CharV(98), IntV(258))>>)
  /\ WrittenBytes(1) = <<2, 0, 0, 0, 0, 0, 0, 0, 97, 254, 255, 255, 255, 98, 2, 1, 0, 0>>

\* ------------------------------------------------------- pairs and tuples
\* the path each element of the value took, in the order they were processed
SlotPaths(seg) == SelectSeq(seg, LAMBDA e : e.d = 1 /\ e.ev \in PathEvents)

\* the path the dispatch prescribes for x in the operation whose core is core
ExpectedPath(x, core) ==
  IF x.k \in ContainerKinds THEN "container"
  ELSE IF x.k = "obj" /\ core \in x.p THEN "hook" ELSE "memory"

\* the call recorded in rec processed the slots 1..k in that order, each on
\* the path its own type prescribes, and moved the cursor by the slots' sizes
SlotsInOrder(rec, slots, core) ==
  /\ Len(SlotPaths(rec.log)) = Len(slots)
  /\ \A j \in 1..Len(slots) :
       /\ SlotPaths(rec.log)[j].n = j
       /\ PathKind(SlotPaths(rec.log)[j].ev) = ExpectedPath(slots[j], core)
  /\ rec.to - rec.from = Len(WireAll(slots))

\* C18: Write, Read and Measure of a pair or tuple process slot 0, 1, ..., k-1
\* in that order, each through the dispatch of its own type, and emit or
\* consume no count: the bytes are the slots' encodings back to back, the size
\* is their sum, and reading them back yields the slots.
C18_TupleLayout ==
  /\ \A i \in 1..Len(wdone) :
       wdone[i].val.k \in VariadicKinds =>
         /\ SlotsInOrder(wdone[i], wdone[i].val.v, "OnSerialise")
         /\ WrittenBytes(i) = WireAll(wdone[i].val.v)
  /\ \A i \in 1..Len(mdone) :
       mdone[i].val.k \in VariadicKinds =>
         SlotsInOrder(mdone[i], mdone[i].val.v, "OnSize")
  /\ \A i \in 1..Len(rdone) :
       ReadOfWritten(i) /\ wdone[i].val.k \in VariadicKinds =>
         /\ SlotsInOrder(rdone[i], rdone[i].out.v, "OnDeserialise")
         /\ Equal(rdone[i].out, wdone[i].val)

\* the tuple ( 258, 'a', "a" ) was measured, written and read back: 4 + 1 + 9
\* bytes, the int first and the string last
C18_Witness ==
  /\ Measured(1) /\ ReadOfWritten(1)
  /\ wdone[1].val = Tuple(<<IntV(258), CharV(97), Str(<<97>>)>>)
  /\ WrittenBytes(1) = <<2, 1, 0, 0, 97, 1, 0, 0, 0, 0, 0, 0, 0, 97>>
  /\ mdone[1].to = SizeofInt + SizeofChar + SizeofSize + SizeofChar
  /\ rdone[1].out = wdone[1].val

\* ------------------------------------------------ associative containers
\* read number i took the bytes of a written map or set into a map or set
AssocRead(i) ==
  /\ Written(i)
  /\ i <= Len(rdone)
  /\ rdone[i].from = wdone[i].from
  /\ wdone[i].val.k \in MapKinds \cup SetKinds
  /\ rdone[i].dst.k \in MapKinds \cup SetKinds

\* the keys of the entries q
Keys(q) == {KeyOf(q[j]) : j \in 1..Len(q)}

\* the entries of the unique-key container that held held and was offered the
\* entries stored in order: those held, and of the stored ones the first of
\* each key not held
KeptEntries(held, stored) ==
  {held[j] : j \in 1..Len(held)}
  \cup {stored[j] : j \in {n \in 1..Len(stored) :
                            /\ KeyOf(stored[n]) \notin Keys(held)
                            /\ \A q \in 1..(n - 1) : KeyOf(stored[q]) # KeyOf(stored[n])}}

\* C17: reading a map or set consumes the count and all count stored entries
\* without error and inserts them one by one in stored order; a unique-key
\* container ends up holding, beside what it held, the first stored entry of
\* each key it did not hold, the later ones being dropped, and a multi
\* container ends up holding every stored entry.
C17_AssociativeRead ==
  \A i \in 1..Len(rdone) :
    AssocRead(i) =>
      LET stored == wdone[i].val.v
          held == rdone[i].dst.v
          out == rdone[i].out.v
          steps == SlotPaths(rdone[i].log)
          perEntry == IF rdone[i].dst.k \in MapKinds THEN 2 ELSE 1
      IN /\ ~rdone[i].thrown /\ ~rdone[i].corrupt
         /\ rdone[i].to = wdone[i].to
         /\ rdone[i].to - rdone[i].from = SizeofSize + Len(WireAll(stored))
         /\ Len(steps) = perEntry * Len(stored)
         /\ \A j \in 1..Len(steps) : steps[j].n = (j + perEntry - 1) \div perEntry
         /\ IF rdone[i].dst.k \in UniqueKinds
            THEN /\ {out[j] : j \in 1..Len(out)} = KeptEntries(held, stored)
                 /\ Len(out) = Cardinality(Keys(held) \cup Keys(stored))
            ELSE SameBag(out, held \o stored)

\* a multimap holding two entries under one key among its three was read as
\* a map: all 23 bytes were consumed and one entry was dropped
C17_Witness ==
  /\ AssocRead(1)
  /\ wdone[1].val.k = "multimap" /\ rdone[1].dst.k = "map"
  /\ Len(wdone[1].val.v) = 3
  /\ Len(rdone[1].out.v) = 2
  /\ rdone[1].to = SizeofSize + 3 * (SizeofChar + SizeofInt)
  /\ ~rdone[1].thrown

\* C19: after a Read into a priority queue the queue's top is its greatest
\* element, whatever element sequence the buffer held.
C19_HeapAfterRead ==
  \A i \in 1..Len(rdone) :
    ReadBack(i) /\ rdone[i].dst.k = "priority_queue" =>
      \A j \in 1..Len(rdone[i].out.v) : rdone[i].out.v[1].v >= rdone[i].out.v[j].v

\* ------------------------------------------- destinations holding elements
\* read number i took the bytes of a written string, sequence, map or set
\* into a container of the written type, empty or not (a user struct among
\* the elements declaring both OnSerialise and OnDeserialise or neither)
RefillRead(i) ==
  /\ Written(i)
  /\ ReadBack(i)
  /\ rdone[i].from = wdone[i].from
  /\ wdone[i].val.k \in RefillKinds
  /\ rdone[i].dst.k = wdone[i].val.k
  /\ CoreHooksAgree(wdone[i].val, {"OnSerialise", "OnDeserialise"})

\* what Read leaves in the destination: vector, deque and string hold the
\* stored elements only; a list holds what it held and then the stored
\* elements, a forward_list the stored elements and then what it held; a
\* unique-key map or set holds what it held and the stored entries of other
\* keys, a multimap or multiset what it held and every stored entry
ReadResult(i) ==
  LET stored == wdone[i].val.v
      held == rdone[i].dst.v
      out == rdone[i].out.v
      kd == rdone[i].dst.k
  IN /\ kd \in {"vector", "deque", "string"} =>
          Len(out) = Len(stored) /\ Equal(rdone[i].out, wdone[i].val)
     /\ kd = "list" => out = held \o stored
     /\ kd = "forward_list" => out = stored \o held
     /\ kd \in UniqueKinds =>
          /\ {out[j] : j \in 1..Len(out)} = KeptEntries(held, stored)
          /\ Len(out) = Cardinality(Keys(held) \cup Keys(stored))
     /\ kd \in (MapKinds \cup SetKinds) \ UniqueKinds => SameBag(out, held \o stored)

\* the kinds whose Read adds to what the destination holds
AddingKinds == {"list", "forward_list"} \cup MapKinds \cup SetKinds

RECURSIVE MeasureAll(_, _)
\* z + q[1] + q[2] + ...
MeasureAll(z, q) == IF Len(q) = 0 THEN z ELSE MeasureAll(SizeOfOp(z, q[1]), Tail(q))

RECURSIVE ReadAll(_, _, _)
\* c >> q[1] >> q[2] >> ...: the context reached and the values read
ReadAll(c, q, got) ==
  IF Len(q) = 0 THEN [c |-> c, o |-> got]
  ELSE LET r == DeserialiseOp(c, q[1])
       IN ReadAll(r.c, Tail(q), Append(got, r.o))

\* the values handed to the calls recorded in done
Vals(done) == [j \in 1..Len(done) |-> done[j].val]

\* the second instances are where they are when run alone on their values
PeerAsAlone ==
  LET w == WriteAll(NewSerialiser, SubSeq(peer.items, 1, peer.w))
      m == MeasureAll(NewSizer, SubSeq(peer.items, 1, peer.m))
      input == WriteAll(NewSerialiser, peer.items).m_Data
      r == ReadAll(NewDeserialiser(input),
                   [j \in 1..peer.r |-> Fresh(peer.items[j])], <<>>)
  IN /\ GetBytesWritten(peer.ser) = GetBytesWritten(w) /\ peer.ser.m_Data = w.m_Data
     /\ peer.sizer.m_Size = m.m_Size
     /\ GetBytesRead(peer.des) = GetBytesRead(r.c) /\ peer.des.m_Data = input
     /\ peer.out = r.o

\* the host's instances are where they are when run alone on their values
HostAsAlone ==
  LET w == WriteAll(NewSerialiser, Vals(wdone))
      m == MeasureAll(NewSizer, Vals(mdone))
      r == ReadAll(NewDeserialiser(ser.m_Data), [j \in 1..Len(rdone) |-> rdone[j].dst], <<>>)
  IN /\ GetBytesWritten(ser) = GetBytesWritten(w) /\ ser.m_Data = w.m_Data
     /\ sizer.m_Size = m.m_Size
     /\ GetBytesRead(des) = GetBytesRead(r.c)
     /\ [j \in 1..Len(rdone) |-> rdone[j].out] = r.o

ElementCalls(seg) ==
  LET sel == SelectSeq(seg, LAMBDA e : e.d <= 1 /\ e.ev \in AllHooks \cup {"Size"})
  IN [j \in 1..Len(sel) |-> <<sel[j].ev, sel[j].n>>]

RECURSIVE CallsInTurn(_, _, _)
\* for element j, j + 1, ... of elems in turn, its declared functions of order
CallsInTurn(elems, order, j) ==
  IF j > Len(elems) THEN <<>>
  ELSE LET own == Declared(elems[j], order)
       IN [q \in 1..Len(own) |-> <<own[q], j>>] \o CallsInTurn(elems, order, j + 1)

\* x is a sequence of user structs
SequenceOfObjects(x) == x.k \in SequenceKinds /\ x.p.k = "obj"

\* C22: a Write (Read) of a sequence of structs transfers the count before
\* any On* function runs and then, element after element, calls the element's
\* declared before, core and after functions in that order, all of element i
\* ahead of any of element i+1; a Measure calls no On* function but OnSize.
C22_ElementHookOrder ==
  /\ \A i \in 1..Len(wdone) :
       Written(i) /\ SequenceOfObjects(wdone[i].val) =>
         ElementCalls(wdone[i].log) =
           <<(<<"Size", 0>>)>>
           \o CallsInTurn(wdone[i].val.v,
                          <<"OnBeforeSerialise", "OnSerialise", "OnAfterSerialise">>, 1)
  /\ \A i \in 1..Len(rdone) :
       ReadBack(i) /\ SequenceOfObjects(rdone[i].dst) =>
         ElementCalls(rdone[i].log) =
           <<(<<"Size", 0>>)>>
           \o CallsInTurn(rdone[i].out.v,
                          <<"OnBeforeDeserialise", "OnDeserialise", "OnAfterDeserialise">>, 1)
  /\ \A i \in 1..Len(mdone) :
       \A j \in 1..Len(mdone[i].log) :
         mdone[i].log[j].ev \in AllHooks => mdone[i].log[j].ev = "OnSize"

\* a vector of two structs declaring all seven functions was measured, written
\* and read: the count, then three calls for element 1, then three for 2
C22_Witness ==
  /\ Measured(1) /\ Written(1) /\ ReadBack(1)
  /\ wdone[1].val.k = "vector" /\ wdone[1].val.p.k = "obj" /\ wdone[1].val.p.p = AllHooks
  /\ ElementCalls(wdone[1].log) =
       <<(<<"Size", 0>>),
         <<"OnBeforeSerialise", 1>>, <<"OnSerialise", 1>>, <<"OnAfterSerialise", 1>>,
         <<"OnBeforeSerialise", 2>>, <<"OnSerialise", 2>>, <<"OnAfterSerialise", 2>> >>
  /\ ElementCalls(rdone[1].log) =
       <<(<<"Size", 0>>),
         <<"OnBeforeDeserialise", 1>>, <<"OnDeserialise", 1>>, <<"OnAfterDeserialise", 1>>,
         <<"OnBeforeDeserialise", 2>>, <<"OnDeserialise", 2>>, <<"OnAfterDeserialise", 2>> >>
  /\ ElementCalls(mdone[1].log) = <<(<<"OnSize", 1>>), <<"OnSize", 2>> >>

\* ---------------------------------------------------------- buffer frame
\* C23: a Write changes no byte of the buffer outside [cursor before, cursor
\* after) and so none below the cursor it started at; a Read changes no byte
\* of the buffer it reads from; no other operation touches the buffer.
C23_BufferFrame ==
  [][/\ \A j \in 1..BufSize :
          ser'.m_Data[j] # ser.m_Data[j] => ser.m_Head < j /\ j <= ser'.m_Head
     /\ SubSeq(ser'.m_Data, 1, ser.m_Head) = SubSeq(ser.m_Data, 1, ser.m_Head)
     /\ Len(wdone') = Len(wdone) => ser'.m_Data = ser.m_Data
     /\ Len(rdone') > Len(rdone) => des'.m_Data = des.m_Data /\ ser' = ser
     /\ des'.m_Data # des.m_Data => des'.m_Data = ser'.m_Data]_vars

\* two values were written and both read back: the second Write started
\* above offset 0 and put non-zero bytes there, and the bytes of the first
\* Write are still the encoding of the first value
C23_Witness ==
  /\ Len(wdone) = 2 /\ Len(rdone) = 2
  /\ Written(1) /\ Written(2)
  /\ wdone[1].val = Str(<<97, 98>>)
  /\ wdone[2].from = SizeofSize + 2 * SizeofChar
  /\ WrittenBytes(2) = ToBytes(5, SizeofInt)
  /\ WrittenBytes(1) = ToBytes(2, SizeofSize) \o <<97, 98>>

\* ------------------------------------------------------ fixed short read
\* C24: reading a fixed-size container of capacity N from a stored count C
\* below N consumes the count and exactly C elements, puts them into slots
\* 0..C-1 and leaves slots C..N-1 holding what they held before the read.
C24_ShortReadKeepsRest ==
  \A i \in 1..Len(rdone) :
    FixedRead(i) /\ Len(wdone[i].val.v) < Len(rdone[i].dst.v) =>
      LET C == Len(wdone[i].val.v)
          N == Len(rdone[i].dst.v)
      IN /\ ~rdone[i].corrupt /\ ~rdone[i].thrown
         /\ rdone[i].to = rdone[i].from + SizeofSize + C * Sizeof(rdone[i].dst.p)
         /\ rdone[i].to = wdone[i].to
         /\ Len(rdone[i].out.v) = N
         /\ \A j \in 1..C : rdone[i].out.v[j] = wdone[i].val.v[j]
         /\ \A j \in (C + 1)..N : rdone[i].out.v[j] = rdone[i].dst.v[j]

\* one element was written and read into a capacity of three whose slots
\* held 5, 6 and 7: slot 0 holds the written element, slots 1 and 2 still 6, 7
C24_Witness ==
  /\ FixedRead(1)
  /\ Len(wdone[1].val.v) = 1 /\ Len(rdone[1].dst.v) = 3
  /\ rdone[1].dst.v = <<IntV(5), IntV(6), IntV(7)>>
  /\ rdone[1].out.v = <<wdone[1].val.v[1], IntV(6), IntV(7)>>
  /\ wdone[1].val.v[1] # IntV(5)

\* ------------------------------------------- one queue under concurrency
\* context c has gone over the elements of its Helper
Walked(c) == calls[c].pc \in {"walked", "done"}

\* no context is inside a priority_queue overload, and at least two went through
AllReturned ==
  /\ \A c \in Contexts : calls[c].pc \in {"idle", "done"}
  /\ Cardinality({c \in Contexts : calls[c].pc = "done"}) >= 2

\* C21: when contexts with buffers of their own Write / Measure one
\* priority_queue concurrently, in every interleaving each context goes over
\* all elements of the queue (and sizes / writes them all), and the queue holds
\* its original elements once the contexts have returned.
C21_SharedSourceReadOnly ==
  /\ \A c \in Contexts : Walked(c) => calls[c].seen = orig[1].v
  /\ Walked("sizer") => sizer.m_Size = SizeofSize + SizeofInt * Len(orig[1].v)
  /\ Walked("ser") => ser.m_Head = SizeofSize + SizeofInt * Len(orig[1].v)
  /\ Walked("peer") => peer.ser.m_Head = SizeofSize + SizeofInt * Len(orig[1].v)
  /\ AllReturned => items[1].v = orig[1].v

====
